---- MODULE Spec2Model ----
(***************************************************************************)
(* Scrape-job pipeline of mvp-backend: the job control API                 *)
(* (app/api/v1/scrape_jobs.py), the background runner and crawl loop       *)
(* (app/services/scraper_service.py) and the ScrapeJob record              *)
(* (app/models/scrape_job.py).                                             *)
(*                                                                         *)
(* Every step between two awaits on the database or on the HTTP client is  *)
(* one action; a request that reads a row and writes it later is split at  *)
(* the await, so that other sessions can commit in between.                *)
(***************************************************************************)
EXTENDS Integers, Sequences, FiniteSets, TLC

\* ------------------------------------------------------------------------
\* Bounds
\* ------------------------------------------------------------------------
MaxJobs == 2          \* ScrapeJob rows ever created
MaxControlJobs == 1   \* ScrapeJob rows created where the API responses are followed
MaxGets == 2          \* session.get calls followed one after the other
MaxCoroutines == 2    \* coroutines calling _load_field_mappings
MaxUtcnow == 450      \* the parser clock stops here
UtcStep == 150        \* seconds between two readings of the parser clock
MaxCreateReqs == 1    \* create_job requests in flight at once
MaxPages == 2         \* largest max_pages a job is created with
MaxLinks == 1         \* most listing links found on one search page
MaxPolls == 16        \* polls of one progress stream that found the job not terminal
MaxPaths == 2         \* URLs per host
MaxClock == 7200      \* seconds of wall-clock time followed
ClockStep == 1800     \* seconds by which the followed clock moves at a time
MaxListings == 2      \* listings rows ever inserted
MaxHistory == 2       \* price_history rows present when a call starts
AmountDigits == 3     \* decimal digits of an observed price amount
MaxRows == 3          \* primary keys the listings table hands out
MaxCreators == 2      \* POST /listings requests in flight at once
MaxGroups == 3        \* digit groups in one price string
MaxSiteNow == 4       \* requests to the sites API that are followed
MaxScraped == 2       \* listings one crawl reports as scraped
MaxCrawlPages == 3    \* largest max_pages where the page URLs are followed

Jobs == 1..MaxJobs
Reqs == 1..MaxCreateReqs


TerminalStatuses == {"completed", "failed", "cancelled"}
RowStatuses == {"pending", "running"} \cup TerminalStatuses

ZeroProgress ==
    [pages_visited |-> 0, listings_found |-> 0, listings_scraped |-> 0, errors |-> 0]

VARIABLES
    site,             \* SiteConfig.is_active of the site key: "active", "inactive"
    status,           \* status[j]: "none" (no row yet), "deleted", or ScrapeJob.status
    progress,         \* progress[j]: committed ScrapeJob.progress
    max_pages,        \* max_pages[j]: ScrapeJob.max_pages
    createPc,         \* createPc[r]: position of create_job request r
    createResult,     \* createResult[r]: outcome of the last create_job call of r
    cancelPc,         \* cancelPc[j]: position of the cancel_job request on job j
    deletePc,         \* deletePc[j]: position of the delete_job request on job j
    worker,           \* worker[j]: run_scrape_job / _run_scrape_async task of job j
    cancelledRunning, \* history: cancel_job committed "cancelled" over a running job j
    ckptAfterCancel,  \* history: a checkpoint of j ran after that commit
    sse,              \* the _sse_job_stream generator of one subscriber
    sseTerminalSeen,  \* history: the watched job was terminal while the stream was open
    robots_cache,     \* EthicalScraper._robots_cache: domain -> (parser, loaded)
    cache_timestamps, \* EthicalScraper._cache_timestamps
    clock,            \* time.time(), in seconds since the scraper was built
    visited_urls,     \* EthicalScraper._visited_urls
    requested,        \* history: URLs for which the session issued a GET
    fetchPc,          \* position and URL of the current EthicalScraper.get call
    getResult,        \* what the last get call returned
    robotsRetrieved,  \* history: some load of the host's robots.txt did not fail
    listings,         \* listings row of each source_url (unique), or NoRow
    media_assets,     \* media_assets rows, in insertion order
    price_history,    \* price_history rows, in insertion order
    nextListingId,    \* the id the next inserted listing gets
    persistPc,        \* position, record and selected row of the _persist_listing call
    lastRecord,       \* history: the record last persisted for a source_url, untouched since
    robotsBlocked,    \* environment: robots.txt of the crawled host cannot be loaded
    crawlHist,        \* history: crawlHist[j], what the fetches of job j's crawl returned
    cancelResult,     \* cancelResult[j]: outcome of the last cancel_job request on j
    deleteResult,     \* deleteResult[j]: outcome of the last delete_job request on j
    skipped,          \* history: URLs for which a get returned at the visited check
    retry,            \* one session.get of EthicalScraper.get: Retry counter and answers
    _FIELD_MAP_CACHE,   \* parser_service module globals (lines 38-48)
    _FEATURE_MAP_CACHE,
    _FIELD_TOKEN_INDEX,
    _CACHE_TIMESTAMP,
    _cache_lock,      \* 0 when free, else the coroutine holding it
    field_mappings,   \* the active FieldMapping rows of the database
    loader,           \* loader[c]: position and locals of a _load_field_mappings call
    utcnow,           \* datetime.now(timezone.utc), in seconds
    lastLookup,        \* history: what the last lookup got from the two getters
    listing_rows,   \* rows of the listings table as (id, source_url, origin)
    nextRowId,   \* the next primary key
    creator,   \* creator[r]: the POST /listings request r
    upsert,   \* the engine upsert in progress
    priceCase,   \* the price string parse_price was last called with, by its parts
    priceOut,   \* what that call returned
    site_configs,   \* site_configs[k]: the site_configs row with key k
    siteNow,   \* datetime.now as the sites API reads it
    siteCall,   \* the last request to the sites API and its answer
    logs,   \* logs[j]: the committed logs column of job j
    urls,   \* urls[j]: the committed urls column of job j
    tracked,   \* tracked[j]: the _track_url calls that found the row of job j and returned
    logged,   \* logged[j]: the _add_job_log calls that found the row of job j and returned
    lastFetch,   \* the last scraper.get of a crawl loop and the local errors counter around it
    pager,   \* the page loop of one crawl: the site's pagination fields, page_num, current_url and the last next_url
    _CURRENCY_MAP_CACHE,   \* mapper_service._CURRENCY_MAP_CACHE
    mapper_CACHE_TIMESTAMP,   \* mapper_service._CACHE_TIMESTAMP
    currencyLoader,   \* the _load_currency_map call in progress
    loadFailed,   \* the time read by the last load of each cache that failed
    loadHist,   \* history: callers of _load_field_mappings overtaken by a load, and the last load that succeeded
    rescrape   \* one pass of the update branch of _persist_listing: the row found, listing_data, the row committed

jobVars == <<site, status, progress, max_pages, createPc, createResult, cancelPc,
             deletePc, worker, cancelledRunning, ckptAfterCancel>>

sseVars == <<sse, sseTerminalSeen>>

fetchVars == <<robots_cache, cache_timestamps, clock, visited_urls, requested, fetchPc,
               getResult, robotsRetrieved>>

persistVars == <<listings, media_assets, price_history, nextListingId, persistPc,
                 lastRecord>>

crawlVars == <<robotsBlocked, crawlHist>>

apiVars == <<cancelResult, deleteResult>>

\* what the specifications of the earlier sections leave alone
parserVars == <<_FIELD_MAP_CACHE, _FEATURE_MAP_CACHE, _FIELD_TOKEN_INDEX, _CACHE_TIMESTAMP,
                _cache_lock, field_mappings, loader, utcnow, lastLookup>>

rowVars == <<listing_rows, nextRowId, creator, upsert>>

priceVars == <<priceCase, priceOut>>

siteVars == <<site_configs, siteNow, siteCall>>

logVars == <<logs, urls, tracked, logged, lastFetch>>

pagerVars == <<pager>>

mapperVars == <<_CURRENCY_MAP_CACHE, mapper_CACHE_TIMESTAMP, currencyLoader, loadFailed>>

loadHistVars == <<loadHist>>

rescrapeVars == <<rescrape>>

auxVars == <<crawlVars, apiVars, skipped, retry, parserVars,
            rowVars,
            priceVars,
            siteVars,
            logVars,
            pagerVars,
            mapperVars,
            loadHistVars,
            rescrapeVars>>

\* everything but the job rows and crawlVars; everything but them and apiVars
exceptCrawlVars == <<sseVars, fetchVars, persistVars, apiVars, skipped, retry, parserVars,
    rowVars,
    priceVars,
    siteVars,
    logVars,
    pagerVars,
    mapperVars,
    loadHistVars,
    rescrapeVars>>

exceptApiVars == <<sseVars, fetchVars, persistVars, crawlVars, skipped, retry, parserVars,
    rowVars,
    priceVars,
    siteVars,
    logVars,
    pagerVars,
    mapperVars,
    loadHistVars,
    rescrapeVars>>

\* everything but fetchVars and skipped
exceptFetchVars == <<jobVars, sseVars, persistVars, crawlVars, apiVars, retry, parserVars,
    rowVars,
    priceVars,
    siteVars,
    logVars,
    pagerVars,
    mapperVars,
    loadHistVars,
    rescrapeVars>>

\* everything but rowVars
exceptRowVars == <<jobVars, sseVars, fetchVars, persistVars, crawlVars, apiVars, skipped, retry, parserVars,
    priceVars,
    siteVars,
    logVars,
    pagerVars,
    mapperVars,
    loadHistVars,
    rescrapeVars>>

\* everything but priceVars
exceptPriceVars == <<jobVars, sseVars, fetchVars, persistVars, crawlVars, apiVars, skipped, retry, parserVars, rowVars,
    siteVars,
    logVars,
    pagerVars,
    mapperVars,
    loadHistVars,
    rescrapeVars>>

\* everything but siteVars
exceptSiteVars == <<jobVars, sseVars, fetchVars, persistVars, crawlVars, apiVars, skipped, retry, parserVars, rowVars, priceVars,
    logVars,
    pagerVars,
    mapperVars,
    loadHistVars,
    rescrapeVars>>

\* everything but the job rows and logVars
exceptLogVars == <<sseVars, fetchVars, persistVars, crawlVars, apiVars, skipped, retry, parserVars, rowVars, priceVars, siteVars,
    pagerVars,
    mapperVars,
    loadHistVars,
    rescrapeVars>>

\* everything but pagerVars
exceptPagerVars == <<jobVars, sseVars, fetchVars, persistVars, crawlVars, apiVars, skipped, retry, parserVars, rowVars, priceVars, siteVars, logVars,
    mapperVars,
    loadHistVars,
    rescrapeVars>>

\* everything but the parser cache and mapperVars
exceptMapperVars == <<jobVars, sseVars, fetchVars, persistVars, crawlVars, apiVars, skipped, retry, rowVars, priceVars, siteVars, logVars, pagerVars,
    loadHistVars,
    rescrapeVars>>

\* everything but the field-map cache and the history of its loads
exceptLoadHistVars == <<jobVars, sseVars, fetchVars, persistVars, crawlVars, apiVars, skipped, retry, rowVars, priceVars, siteVars, logVars, pagerVars, mapperVars,
    rescrapeVars>>

\* everything but the followed update of a listing row
exceptRescrapeVars == <<jobVars, sseVars, fetchVars, persistVars, crawlVars, apiVars, skipped, retry, parserVars, rowVars, priceVars, siteVars, logVars, pagerVars, mapperVars, loadHistVars>>

vars == <<jobVars, sseVars, fetchVars, persistVars, auxVars>>

\* ------------------------------------------------------------------------
\* ScrapeJob rows
\* ------------------------------------------------------------------------
RowExists(j) == status[j] \in RowStatuses

RunningJobs == {j \in Jobs : status[j] = "running"}

NextJobId == Cardinality({j \in Jobs : status[j] # "none"}) + 1

IdleWorker ==
    [pc |-> "none", page_num |-> 0, links |-> 0, has_next |-> FALSE,
     pages_visited |-> 0, listings_found |-> 0, listings_scraped |-> 0, errors |-> 0]

\* a task that has returned: its locals are gone
DoneWorker == [IdleWorker EXCEPT !.pc = "done"]

\* ScrapeJob.mark_running: status and a fresh progress record
mark_running(j) ==
    /\ status' = [status EXCEPT ![j] = "running"]
    /\ progress' = [progress EXCEPT ![j] = ZeroProgress]

\* mark_completed whose change is never committed
mark_completed_uncommitted(j) == UNCHANGED status

mark_completed(j) == status' = [status EXCEPT ![j] = "completed"]

mark_failed(j) == status' = [status EXCEPT ![j] = "failed"]

mark_cancelled(j) == status' = [status EXCEPT ![j] = "cancelled"]

\* ScrapeJob.update_progress: the keyword arguments overlay the stored record
update_progress(old, kw) == [k \in DOMAIN old |-> IF k \in DOMAIN kw THEN kw[k] ELSE old[k]]

\* ------------------------------------------------------------------------
\* Site configuration API (app/api/v1/sites.py)
\* ------------------------------------------------------------------------
\* delete_site without permanent: soft delete, refused when already inactive
delete_site ==
    /\ site = "active"
    /\ site' = "inactive"
    /\ UNCHANGED <<status, progress, max_pages, createPc, createResult, cancelPc,
                   deletePc, worker, cancelledRunning, ckptAfterCancel>>

reactivate_site ==
    /\ site = "inactive"
    /\ site' = "active"
    /\ UNCHANGED <<status, progress, max_pages, createPc, createResult, cancelPc,
                   deletePc, worker, cancelledRunning, ckptAfterCancel>>

\* ------------------------------------------------------------------------
\* create_job (scrape_jobs.py 33-71)
\* ------------------------------------------------------------------------
\* select(ScrapeJob).where(status == "running") followed by scalar_one_or_none():
\* no row, the row, or MultipleResultsFound when more than one row matches
RunningQuery ==
    IF RunningJobs = {} THEN "no_row"
    ELSE IF Cardinality(RunningJobs) = 1 THEN "one_row"
    ELSE "multiple_results"

create_job_check_running(r) ==
    /\ createPc[r] = "idle"
    /\ IF RunningQuery = "no_row"
         THEN /\ createPc' = [createPc EXCEPT ![r] = "checked"]
              /\ createResult' = [createResult EXCEPT ![r] = "none"]
         ELSE /\ createPc' = createPc
              /\ createResult' = [createResult EXCEPT ![r] =
                     IF RunningQuery = "one_row" THEN "job_running_conflict"
                                                 ELSE "multiple_results_found"]
    /\ UNCHANGED <<site, status, progress, max_pages, cancelPc, deletePc, worker,
                   cancelledRunning, ckptAfterCancel>>

\* a create_job without the site lookup of lines 49-54
create_job_skip_site(r) ==
    /\ createPc[r] = "checked"
    /\ createPc' = [createPc EXCEPT ![r] = "sited"]
    /\ UNCHANGED <<site, status, progress, max_pages, createResult, cancelPc, deletePc,
                   worker, cancelledRunning, ckptAfterCancel>>

\* lines 49-54: the site must exist and be active
create_job_check_site(r) ==
    /\ createPc[r] = "checked"
    /\ IF site = "active"
         THEN /\ createPc' = [createPc EXCEPT ![r] = "sited"]
              /\ createResult' = createResult
         ELSE /\ createPc' = [createPc EXCEPT ![r] = "idle"]
              /\ createResult' = [createResult EXCEPT ![r] = "not_found"]
    /\ UNCHANGED <<site, status, progress, max_pages, cancelPc, deletePc, worker,
                   cancelledRunning, ckptAfterCancel>>

\* a create_job that calls add_task before its commit: the runner is scheduled
\* while no other session sees the row
RowAtScheduleUncommitted == "none"

\* lines 65-69: db.add and commit come before add_task, the runner is scheduled
\* with the pending row committed
RowAtSchedule == "pending"

\* db.add(job); commit; background_tasks.add_task(run_scrape_job, job.id)
create_job_commit(r, limit) ==
    /\ createPc[r] = "sited"
    /\ NextJobId <= limit
    /\ \E mp \in 1..MaxPages :
         LET j == NextJobId IN
           /\ status' = [status EXCEPT ![j] = RowAtSchedule]
           /\ progress' = [progress EXCEPT ![j] = ZeroProgress]
           /\ max_pages' = [max_pages EXCEPT ![j] = mp]
           /\ worker' = [worker EXCEPT ![j] = [IdleWorker EXCEPT !.pc = "scheduled"]]
    /\ createPc' = [createPc EXCEPT ![r] = "idle"]
    /\ createResult' = [createResult EXCEPT ![r] = "created"]
    /\ UNCHANGED <<site, cancelPc, deletePc, cancelledRunning, ckptAfterCancel>>

\* ------------------------------------------------------------------------
\* cancel_job (scrape_jobs.py 114-131) and delete_job (134-145)
\* ------------------------------------------------------------------------
\* a cancel_job that accepts a job whatever status it read
CancellableAlways(st) == TRUE

\* lines 120-123: the status test of cancel_job
Cancellable(st) == st \in {"pending", "running"}

\* a delete_job that accepts a job whatever status it read
DeletableAlways(st) == TRUE

\* lines 140-141: the status test of delete_job
Deletable(st) == st # "running"

\* select the job; NotFoundError / conflict leave everything unchanged
cancel_job_read(j) ==
    /\ cancelPc[j] = "idle"
    /\ RowExists(j)
    /\ Cancellable(status[j])
    /\ cancelPc' = [cancelPc EXCEPT ![j] = "flush"]
    /\ UNCHANGED <<site, status, progress, max_pages, createPc, createResult, deletePc,
                   worker, cancelledRunning, ckptAfterCancel>>

\* job.mark_cancelled(); flush; the request-scoped session commits (deps.py 37-47).
\* The UPDATE is by primary key: it overwrites whatever status is stored by then.
cancel_job_commit(j) ==
    /\ cancelPc[j] = "flush"
    /\ cancelPc' = [cancelPc EXCEPT ![j] = "idle"]
    /\ IF RowExists(j)
         THEN /\ mark_cancelled(j)
              /\ cancelledRunning' = [cancelledRunning EXCEPT ![j] = @ \/ status[j] = "running"]
         ELSE UNCHANGED <<status, cancelledRunning>>
    /\ UNCHANGED <<site, progress, max_pages, createPc, createResult, deletePc, worker,
                   ckptAfterCancel>>

delete_job_read(j) ==
    /\ deletePc[j] = "idle"
    /\ RowExists(j)
    /\ Deletable(status[j])
    /\ deletePc' = [deletePc EXCEPT ![j] = "flush"]
    /\ UNCHANGED <<site, status, progress, max_pages, createPc, createResult, cancelPc,
                   worker, cancelledRunning, ckptAfterCancel>>

delete_job_commit(j) ==
    /\ deletePc[j] = "flush"
    /\ deletePc' = [deletePc EXCEPT ![j] = "idle"]
    /\ IF RowExists(j)
         THEN status' = [status EXCEPT ![j] = "deleted"]
         ELSE UNCHANGED status
    /\ UNCHANGED <<site, progress, max_pages, createPc, createResult, cancelPc, worker,
                   cancelledRunning, ckptAfterCancel>>

\* ------------------------------------------------------------------------
\* run_scrape_job (scraper_service.py 40-96)
\* ------------------------------------------------------------------------
\* lines 53-57: load the job; a missing row ends the runner
run_scrape_job_load(j) ==
    /\ worker[j].pc = "scheduled"
    /\ worker' = [worker EXCEPT ![j].pc = IF RowExists(j) THEN "loaded" ELSE "done"]
    /\ UNCHANGED <<site, status, progress, max_pages, createPc, createResult, cancelPc,
                   deletePc, cancelledRunning, ckptAfterCancel>>

\* lines 59-71: site lookup, then mark_failed or mark_running, then commit.
\* Neither branch looks at the status the row has by now.  A row deleted since
\* the load makes the commit raise; the handler of lines 87-96 then finds no job.
run_scrape_job_claim(j) ==
    /\ worker[j].pc = "loaded"
    /\ IF ~RowExists(j)
         THEN /\ worker' = [worker EXCEPT ![j].pc = "done"]
              /\ UNCHANGED <<status, progress>>
         ELSE IF site # "active"
         THEN /\ mark_failed(j)
              /\ worker' = [worker EXCEPT ![j].pc = "done"]
              /\ UNCHANGED progress
         ELSE /\ mark_running(j)
              /\ worker' = [worker EXCEPT ![j].pc = "page_ckpt"]
    /\ UNCHANGED <<site, max_pages, createPc, createResult, cancelPc, deletePc,
                   cancelledRunning, ckptAfterCancel>>

\* ------------------------------------------------------------------------
\* _run_scrape_async (scraper_service.py 99-221)
\* ------------------------------------------------------------------------
\* _check_job_cancelled (224-229): the stored status, None for a missing row
check_job_cancelled(j) == RowExists(j) /\ status[j] = "cancelled"

\* the page loop is left (break, exhausted range, or exception): nothing reads
\* the loop's locals afterwards, the task goes on to _complete_job / _fail_job
LeaveLoop(w, pc) == [IdleWorker EXCEPT !.pc = pc]

\* where the task continues once the link loop of a page is over (207-215):
\* parse_next_page, then the next round of `for page_num in range(max_pages)`
\* lines 135 and 207-212: the next iteration of range(max_pages), or the end of
\* the loop (no next page, or max_pages pages done)
AfterLinks(j, w) ==
    IF w.has_next /\ w.page_num + 1 < max_pages[j]
      THEN [w EXCEPT !.pc = "page_ckpt", !.page_num = @ + 1, !.links = 0]
      ELSE LeaveLoop(w, "complete")

\* what a checkpoint leaves in the history variables
NoteCheckpoint(j) ==
    IF cancelledRunning[j] /\ ~ckptAfterCancel[j]
      THEN ckptAfterCancel' = [ckptAfterCancel EXCEPT ![j] = TRUE]
      ELSE UNCHANGED ckptAfterCancel

\* lines 136-139: checkpoint at the start of a page
page_checkpoint(j) ==
    /\ worker[j].pc = "page_ckpt"
    /\ worker' = [worker EXCEPT ![j] =
                     IF check_job_cancelled(j) THEN LeaveLoop(worker[j], "complete")
                                               ELSE [worker[j] EXCEPT !.pc = "fetch_page"]]
    /\ NoteCheckpoint(j)
    /\ UNCHANGED <<site, status, progress, max_pages, createPc, createResult, cancelPc,
                   deletePc, cancelledRunning>>

\* lines 143-160: scraper.get(current_url); on a response parse_listing_links.
\* resp = "null": error counted, crawl ends.  resp = "raise": parse_listing_links
\* raises (bad selector or link pattern) and the exception leaves the loop.
fetch_page_resp(j, resp, n, nxt) ==
    /\ worker[j].pc = "fetch_page"
    /\ LET w == worker[j] IN
           CASE resp = "null" ->
                  /\ n = 0 /\ nxt = FALSE
                  /\ worker' = [worker EXCEPT ![j] =
                         LeaveLoop([w EXCEPT !.errors = @ + 1], "complete")]
             [] resp = "raise" ->
                  /\ n = 0 /\ nxt = FALSE
                  /\ worker' = [worker EXCEPT ![j] =
                         LeaveLoop([w EXCEPT !.pages_visited = @ + 1], "fail")]
             [] resp = "html" ->
                  LET w1 == [w EXCEPT !.pages_visited = @ + 1,
                                      !.listings_found = @ + n,
                                      !.links = n,
                                      !.has_next = nxt]
                  IN worker' = [worker EXCEPT ![j] =
                         IF n > 0 THEN [w1 EXCEPT !.pc = "link_ckpt"]
                                  ELSE AfterLinks(j, w1)]
    /\ UNCHANGED <<site, status, progress, max_pages, createPc, createResult, cancelPc,
                   deletePc, cancelledRunning, ckptAfterCancel>>

\* the page fetch with whatever the site answers
fetch_page(j) ==
    \E resp \in {"null", "html", "raise"}, n \in 0..MaxLinks, nxt \in BOOLEAN :
        fetch_page_resp(j, resp, n, nxt)

\* lines 164-166: checkpoint before a detail fetch; `break` leaves the link loop only
link_checkpoint(j) ==
    /\ worker[j].pc = "link_ckpt"
    /\ worker' = [worker EXCEPT ![j] =
                     IF check_job_cancelled(j) THEN AfterLinks(j, worker[j])
                                               ELSE [worker[j] EXCEPT !.pc = "fetch_detail"]]
    /\ NoteCheckpoint(j)
    /\ UNCHANGED <<site, status, progress, max_pages, createPc, createResult, cancelPc,
                   deletePc, cancelledRunning>>

\* line 177: parse_listing_page is `async def` (parser_service.py 320) and is
\* called without await, so raw_data is the un-run coroutine object
parse_listing_page_call == "coroutine"

\* line 185: normalize_partner_payload reads raw.get(...): it raises on anything
\* that is not a dict
normalize_raises(raw) == raw # "dict"

\* lines 168-205: the loop's counters after one listing link
detail_counters(w, resp) ==
    IF resp = "null" THEN w
    ELSE IF normalize_raises(parse_listing_page_call) THEN [w EXCEPT !.errors = @ + 1]
    ELSE [w EXCEPT !.listings_scraped = @ + 1]

\* lines 168-205: one listing link
fetch_detail_resp(j, resp) ==
    /\ worker[j].pc = "fetch_detail"
    /\ LET w == worker[j]
           raw == parse_listing_page_call
           w1 == detail_counters(w, resp)
           w2 == [w1 EXCEPT !.links = @ - 1]
       IN
           /\ worker' = [worker EXCEPT ![j] =
                  IF w2.links > 0 THEN [w2 EXCEPT !.pc = "link_ckpt"]
                                  ELSE AfterLinks(j, w2)]
           \* _update_job_progress (252-259) after a persisted listing
           /\ IF resp = "html" /\ ~normalize_raises(raw) /\ RowExists(j)
                THEN progress' = [progress EXCEPT ![j] = update_progress(@,
                        [pages_visited |-> w1.pages_visited,
                         listings_found |-> w1.listings_found,
                         listings_scraped |-> w1.listings_scraped,
                         errors |-> w1.errors])]
                ELSE UNCHANGED progress
    /\ UNCHANGED <<site, status, max_pages, createPc, createResult, cancelPc, deletePc,
                   cancelledRunning, ckptAfterCancel>>

\* the detail fetch with whatever the site answers
fetch_detail(j) == \E resp \in {"null", "html"} : fetch_detail_resp(j, resp)

\* _complete_job (332-340)
complete_job(j) ==
    /\ worker[j].pc = "complete"
    /\ worker' = [worker EXCEPT ![j] = DoneWorker]
    /\ IF RowExists(j) /\ status[j] = "running"
         THEN mark_completed(j)
         ELSE UNCHANGED status
    /\ UNCHANGED <<site, progress, max_pages, createPc, createResult, cancelPc, deletePc,
                   cancelledRunning, ckptAfterCancel>>

\* _fail_job (343-351)
fail_job(j) ==
    /\ worker[j].pc = "fail"
    /\ worker' = [worker EXCEPT ![j] = DoneWorker]
    /\ IF RowExists(j) /\ status[j] = "running"
         THEN mark_failed(j)
         ELSE UNCHANGED status
    /\ UNCHANGED <<site, progress, max_pages, createPc, createResult, cancelPc, deletePc,
                   cancelledRunning, ckptAfterCancel>>

\* ------------------------------------------------------------------------
\* _sse_job_stream (scrape_jobs.py 157-252): one subscriber of job SseJob
\* ------------------------------------------------------------------------
SseJob == CHOOSE j \in Jobs : \A k \in Jobs : j <= k

_SSE_HEARTBEAT_EVERY == 15

\* Optional values: <<>> is None, <<x>> is x
None == <<>>
Some(x) == <<x>>

SseEvent(type, st, pr, tk) == [type |-> type, status |-> st, progress |-> pr, tick |-> tk]

\* identity: the ScrapeJob object in the identity map of the stream's session
SseIdle ==
    [pc |-> "idle", tick |-> 0, last_status |-> None, last_progress |-> None,
     events |-> <<>>, disconnected |-> FALSE, identity |-> None]

\* the object a SELECT loads from the committed row
LoadedJob(j) == [status |-> status[j], progress |-> progress[j], expired |-> FALSE]

\* a stream that never expires what its session holds
expire_all_never(identity) == identity

\* db.expire_all() (line 206): every attribute of the held object is expired
expire_all(identity) ==
    IF identity = None THEN None ELSE Some([identity[1] EXCEPT !.expired = TRUE])

\* select(ScrapeJob) and scalar_one_or_none on the stream's session (192-193,
\* 207-208), the row being there: an object the identity map already holds
\* keeps its loaded attributes, expired ones are read again
session_select(identity, j) ==
    IF identity = None \/ identity[1].expired THEN Some(LoadedJob(j)) ELSE identity

\* lines 190-196: the stream opens its session and looks the job up once
sse_connect ==
    /\ sse.pc = "idle"
    /\ IF RowExists(SseJob)
         THEN sse' = [sse EXCEPT !.pc = "polling",
                                 !.identity = session_select(sse.identity, SseJob)]
         ELSE sse' = [sse EXCEPT !.pc = "closed",
                                 !.events = Append(@, SseEvent("error", None, None, 0))]
    /\ sseTerminalSeen' = (RowExists(SseJob) /\ status[SseJob] \in TerminalStatuses)

\* lines 201-202 and 248-250: the client went away between two polls
sse_disconnected ==
    /\ sse.pc = "polling"
    /\ sse' = [sse EXCEPT !.pc = "closed", !.disconnected = TRUE]
    /\ UNCHANGED sseTerminalSeen

\* SsePollEvents with the change event dropped on the poll that finds the job terminal
SsePollEventsDoneOnly(st, pr) ==
    LET changed == Some(pr) # sse.last_progress \/ Some(st) # sse.last_status
        first == IF changed
                   THEN <<SseEvent(IF Some(st) # sse.last_status THEN "status" ELSE "progress",
                                   Some(st), Some(pr), 0)>>
                   ELSE <<>>
        tick1 == sse.tick + 1
    IN IF st \in TerminalStatuses
         THEN <<SseEvent("done", Some(st), Some(pr), 0)>>
         ELSE IF tick1 % _SSE_HEARTBEAT_EVERY = 0
         THEN first \o <<SseEvent("heartbeat", None, None, tick1)>>
         ELSE first

\* SsePollEvents with one event for each of the two changes
SsePollEventsPerChange(st, pr) ==
    LET first == (IF Some(st) # sse.last_status
                    THEN <<SseEvent("status", Some(st), Some(pr), 0)>> ELSE <<>>)
                 \o (IF Some(pr) # sse.last_progress
                       THEN <<SseEvent("progress", Some(st), Some(pr), 0)>> ELSE <<>>)
        tick1 == sse.tick + 1
    IN IF st \in TerminalStatuses
         THEN first \o <<SseEvent("done", Some(st), Some(pr), 0)>>
         ELSE IF tick1 % _SSE_HEARTBEAT_EVERY = 0
         THEN first \o <<SseEvent("heartbeat", None, None, tick1)>>
         ELSE first

\* the events of one poll that found the row (lines 214-244), in yield order
SsePollEvents(st, pr) ==
    LET changed == Some(pr) # sse.last_progress \/ Some(st) # sse.last_status
        first == IF changed
                   THEN <<SseEvent(IF Some(st) # sse.last_status THEN "status" ELSE "progress",
                                   Some(st), Some(pr), 0)>>
                   ELSE <<>>
        tick1 == sse.tick + 1
    IN IF st \in TerminalStatuses
         THEN first \o <<SseEvent("done", Some(st), Some(pr), 0)>>
         ELSE IF tick1 % _SSE_HEARTBEAT_EVERY = 0
         THEN first \o <<SseEvent("heartbeat", None, None, tick1)>>
         ELSE first

\* lines 199-246: one round of the polling loop.  After expire_all() the
\* select loads the job; nothing else is read until the next round.
sse_poll ==
    /\ sse.pc = "polling"
    /\ sse.tick < MaxPolls
    /\ IF ~RowExists(SseJob)
         THEN sse' = [sse EXCEPT !.pc = "closed",
                                 !.events = Append(@, SseEvent("error", None, None, 0))]
         ELSE LET job == session_select(expire_all(sse.identity), SseJob)
                  st == job[1].status
                  pr == job[1].progress
              IN sse' = [sse EXCEPT
                    !.identity = job,
                    !.events = @ \o SsePollEvents(st, pr),
                    !.last_status = Some(st),
                    !.last_progress = Some(pr),
                    !.tick = IF st \in TerminalStatuses THEN @ ELSE @ + 1,
                    !.pc = IF st \in TerminalStatuses THEN "closed" ELSE "polling"]
    /\ UNCHANGED sseTerminalSeen

\* history: a step that leaves the watched job terminal while the stream is open
NoteTerminal ==
    sseTerminalSeen' =
        (sseTerminalSeen \/ (sse.pc = "polling" /\ status'[SseJob] \in TerminalStatuses))

\* ------------------------------------------------------------------------
\* EthicalScraper (ethics_service.py): one scraper instance
\* ------------------------------------------------------------------------
ROBOTS_CACHE_TTL == 3600

Hosts == {"a.test", "blocked.test"}
Paths == 1..MaxPaths
Urls == Hosts \X Paths

\* _get_domain (lines 74-77): scheme and authority of the URL
_get_domain(u) == u[1]

\* a RobotFileParser as constructed at lines 89-90: nothing read yet
NewParser == [disallow_all |-> FALSE, allow_all |-> FALSE, last_checked |-> FALSE,
              disallow |-> {}]

\* what parser.read() (line 94) can do to a new parser, with the loaded flag
\* that lines 92-103 derive from it:
\*   the fetch or the decoding raises              -> loaded = FALSE
\*   the server answers 401 or 403                 -> disallow_all
\*   the server answers another 4xx (no such file) -> allow_all
\*   the server answers 5xx                        -> parser left unread
\*   the file is served and parsed                 -> rules recorded
ReadOutcomes ==
    { [kind |-> "raises", parser |-> NewParser, loaded |-> FALSE],
      [kind |-> "http_5xx", parser |-> NewParser, loaded |-> TRUE],
      [kind |-> "http_401_403", parser |-> [NewParser EXCEPT !.disallow_all = TRUE],
       loaded |-> TRUE],
      [kind |-> "http_4xx", parser |-> [NewParser EXCEPT !.allow_all = TRUE],
       loaded |-> TRUE] }
    \cup { [kind |-> "parsed",
            parser |-> [NewParser EXCEPT !.last_checked = TRUE, !.disallow = d],
            loaded |-> TRUE] : d \in {{}, {1}} }

\* the outcomes in which robots.txt was not retrieved
FetchFailed == {"raises", "http_5xx"}

NoEntry == [kind |-> "none", parser |-> NewParser, loaded |-> FALSE]

\* parser.can_fetch(user_agent, url) (line 118)
can_fetch(parser, u) ==
    IF parser.disallow_all THEN FALSE
    ELSE IF parser.allow_all THEN TRUE
    ELSE IF ~parser.last_checked THEN FALSE
    ELSE u[2] \notin parser.disallow

\* allowed with the loaded flag read the wrong way round: fail-open
allowed_fail_open(entry, u) ==
    IF entry.loaded THEN can_fetch(entry.parser, u) ELSE TRUE

\* allowed (lines 109-121), given the cache entry _load_robots returned
allowed(entry, u) ==
    IF ~entry.loaded THEN FALSE ELSE can_fetch(entry.parser, u)

\* _load_robots (lines 79-107): is the cached entry of the domain still valid
CacheHit(d) ==
    /\ robots_cache[d] # NoEntry
    /\ clock - cache_timestamps[d] < ROBOTS_CACHE_TTL

\* get, lines 151-153: a URL already visited returns None at once
get_is_visited(u) ==
    /\ fetchPc.pc = "idle"
    /\ fetchPc' = [pc |-> IF u \in visited_urls THEN "idle" ELSE "allowed", url |-> u]
    /\ getResult' = IF u \in visited_urls THEN "null" ELSE "pending"
    /\ UNCHANGED <<robots_cache, cache_timestamps, clock, visited_urls, requested,
                   robotsRetrieved>>

\* a get that goes from the robots approval straight to the request
AfterApprovalNoSleep == "request"

\* line 158: after the approval comes self._sleep()
AfterApproval == "sleep"

\* get, lines 155-156: allowed(url), which loads robots.txt through the cache
get_allowed ==
    /\ fetchPc.pc = "allowed"
    /\ LET u == fetchPc.url
           d == _get_domain(u)
       IN \E entry \in IF CacheHit(d) THEN {robots_cache[d]} ELSE ReadOutcomes :
            /\ IF CacheHit(d)
                 THEN UNCHANGED <<robots_cache, cache_timestamps, robotsRetrieved>>
                 ELSE /\ robots_cache' = [robots_cache EXCEPT ![d] = entry]
                      /\ cache_timestamps' = [cache_timestamps EXCEPT ![d] = clock]
                      /\ robotsRetrieved' =
                            [robotsRetrieved EXCEPT
                                ![d] = @ \/ entry.kind \notin FetchFailed]
            /\ IF allowed(entry, u)
                 THEN /\ fetchPc' = [fetchPc EXCEPT !.pc = AfterApproval]
                      /\ UNCHANGED getResult
                 ELSE /\ fetchPc' = [fetchPc EXCEPT !.pc = "idle"]
                      /\ getResult' = "null"
    /\ UNCHANGED <<clock, visited_urls, requested>>

\* a get that sleeps but leaves out mark_visited (line 160)
get_sleep_unmarked ==
    /\ fetchPc.pc = "sleep"
    /\ fetchPc' = [fetchPc EXCEPT !.pc = "request"]
    /\ UNCHANGED <<robots_cache, cache_timestamps, clock, visited_urls, requested,
                   getResult, robotsRetrieved>>

\* get, lines 158-160: _sleep, then mark_visited
get_sleep ==
    /\ fetchPc.pc = "sleep"
    /\ fetchPc' = [fetchPc EXCEPT !.pc = "request"]
    /\ visited_urls' = visited_urls \cup {fetchPc.url}
    /\ UNCHANGED <<robots_cache, cache_timestamps, clock, requested, getResult,
                   robotsRetrieved>>

\* get, lines 162-179: the request and what becomes of its answer
get_request ==
    /\ fetchPc.pc = "request"
    /\ requested' = requested \cup {fetchPc.url}
    /\ \E answer \in {"200", "4xx", "other", "timeout", "request_exception"} :
          getResult' = IF answer = "200" THEN "response" ELSE "null"
    /\ fetchPc' = [fetchPc EXCEPT !.pc = "idle"]
    /\ UNCHANGED <<robots_cache, cache_timestamps, clock, visited_urls,
                   robotsRetrieved>>

\* reset_visited (lines 137-139)
reset_visited ==
    /\ fetchPc.pc = "idle"
    /\ visited_urls # {}
    /\ visited_urls' = {}
    /\ UNCHANGED <<robots_cache, cache_timestamps, clock, requested, fetchPc,
                   getResult, robotsRetrieved>>

\* time.time() moves on (read at line 81)
clock_advance ==
    /\ clock < MaxClock
    /\ clock' = clock + ClockStep
    /\ UNCHANGED <<robots_cache, cache_timestamps, visited_urls, requested, fetchPc,
                   getResult, robotsRetrieved>>

\* ------------------------------------------------------------------------
\* Listing persistence: _persist_listing (scraper_service.py 262-329) and the
\* listings API (listings.py 349-406)
\* ------------------------------------------------------------------------
NumericScale == 2

SourceUrls == {"https://a.test/l/1", "https://a.test/l/2"}
\* the media lists a canonical record may carry
MediaLists == {<<>>, <<"https://a.test/img/1.jpg">>}

\* amounts are counted in units of 10^-AmountDigits: 300004 is 300.004
Amounts == {280000, 300000, 300004}
ObservedPrices == {None} \cup {Some(a) : a \in Amounts}

\* a canonical record, as far as persistence reads it
Records == [source_url : SourceUrls, price : ObservedPrices, media : MediaLists]

\* what a Numeric(12, 2) column gives back for a stored amount: rounded half up
\* to NumericScale decimal digits
NumericQuantum == 10 ^ (AmountDigits - NumericScale)
StoreNumeric(p) ==
    IF p = None THEN None
    ELSE Some(((2 * p[1] + NumericQuantum) \div (2 * NumericQuantum)) * NumericQuantum)

\* schema_to_listing_dict (mapper_service.py 390-431), price_amount at line 403:
\* the float amount through str and Decimal, not rounded; a zero amount is None
schema_to_listing_dict(schema) ==
    [source_url |-> schema.source_url,
     price_amount |-> IF schema.price = None \/ schema.price = Some(0)
                        THEN None ELSE schema.price]

NoRow == [id |-> 0, price_amount |-> None]
PersistIdle == [pc |-> "idle", schema |-> None, existing |-> NoRow]

\* the media_assets rows lines 320-327 add for a new listing
MediaRows(id, media) == [i \in 1..Len(media) |-> [listing_id |-> id, url |-> media[i]]]
\* rows of a cascade-deleted listing removed
RECURSIVE DropListing(_, _)
DropListing(rows, id) ==
    IF rows = <<>> THEN <<>>
    ELSE IF Head(rows).listing_id = id THEN DropListing(Tail(rows), id)
    ELSE <<Head(rows)>> \o DropListing(Tail(rows), id)

\* the rows followed: a call starts only while there is room for what it may add
RoomForListing == nextListingId <= MaxListings
RoomForHistory == Len(price_history) < MaxHistory

\* _persist_listing, lines 271-280: build listing_data, select by source_url
persist_listing_select(schema) ==
    /\ persistPc.pc = "idle"
    /\ IF listings[schema.source_url] = NoRow THEN RoomForListing ELSE RoomForHistory
    /\ persistPc' = [pc |-> "selected", schema |-> Some(schema),
                     existing |-> listings[schema.source_url]]
    /\ UNCHANGED <<listings, media_assets, price_history, nextListingId, lastRecord>>

\* the update branch (lines 282-311) compares prices without rounding the new one
PriceChanged(existing, new_price) ==
    /\ new_price # None
    /\ existing.price_amount # None
    /\ existing.price_amount # new_price

\* _persist_listing, lines 282-329: update or insert, then commit
persist_listing_commit ==
    /\ persistPc.pc = "selected"
    /\ LET schema == persistPc.schema[1]
           u == schema.source_url
           existing == persistPc.existing
           new_price == schema_to_listing_dict(schema).price_amount
       IN IF existing # NoRow
            THEN IF listings[u].id # existing.id
                   \* the row was deleted meanwhile: the flush fails, nothing is written
                   THEN UNCHANGED <<listings, media_assets, price_history,
                                    nextListingId, lastRecord>>
                   ELSE /\ price_history' =
                              IF PriceChanged(existing, new_price)
                                THEN Append(price_history,
                                            [listing_id |-> existing.id,
                                             price_amount |-> StoreNumeric(existing.price_amount)])
                                ELSE price_history
                        /\ listings' =
                              [listings EXCEPT ![u].price_amount =
                                  IF new_price # None THEN StoreNumeric(new_price) ELSE @]
                        /\ lastRecord' = [lastRecord EXCEPT ![u] = Some(schema)]
                        /\ UNCHANGED <<media_assets, nextListingId>>
            ELSE IF listings[u] # NoRow
                   \* a row with this source_url was inserted meanwhile: unique violation
                   THEN UNCHANGED <<listings, media_assets, price_history,
                                    nextListingId, lastRecord>>
                   ELSE /\ listings' = [listings EXCEPT
                                           ![u] = [id |-> nextListingId,
                                                   price_amount |-> StoreNumeric(new_price)]]
                        /\ media_assets' =
                              media_assets \o MediaRows(nextListingId, schema.media)
                        /\ nextListingId' = nextListingId + 1
                        /\ lastRecord' = [lastRecord EXCEPT ![u] = Some(schema)]
                        /\ UNCHANGED price_history
    /\ persistPc' = PersistIdle

\* create_listing (listings.py 349-366); a duplicate source_url raises and writes nothing
create_listing(u, price, media) ==
    /\ listings[u] = NoRow
    /\ RoomForListing
    /\ listings' = [listings EXCEPT ![u] = [id |-> nextListingId,
                                            price_amount |-> StoreNumeric(price)]]
    /\ media_assets' = media_assets \o MediaRows(nextListingId, media)
    /\ nextListingId' = nextListingId + 1
    /\ lastRecord' = [lastRecord EXCEPT ![u] = None]
    /\ UNCHANGED <<price_history, persistPc>>

\* update_listing (listings.py 369-395) with price_amount in the payload
update_listing(u, price) ==
    /\ listings[u] # NoRow
    /\ RoomForHistory
    /\ price_history' =
          IF price # None /\ listings[u].price_amount # None
                /\ listings[u].price_amount # price
            THEN Append(price_history, [listing_id |-> listings[u].id,
                                        price_amount |-> listings[u].price_amount])
            ELSE price_history
    /\ listings' = [listings EXCEPT ![u].price_amount = StoreNumeric(price)]
    /\ lastRecord' = [lastRecord EXCEPT ![u] = None]
    /\ UNCHANGED <<media_assets, nextListingId, persistPc>>

\* delete_listing (listings.py 398-406): cascades to media_assets and price_history
delete_listing(u) ==
    /\ listings[u] # NoRow
    /\ listings' = [listings EXCEPT ![u] = NoRow]
    /\ media_assets' = DropListing(media_assets, listings[u].id)
    /\ price_history' = DropListing(price_history, listings[u].id)
    /\ lastRecord' = [lastRecord EXCEPT ![u] = None]
    /\ UNCHANGED <<nextListingId, persistPc>>

\* ------------------------------------------------------------------------
\* session.get behind the Retry adapter (ethics_service.py 55-64 and 162-179)
\* ------------------------------------------------------------------------
\* __init__, line 40: the default of max_retries, passed as Retry(total=...)
max_retries == 3

\* line 59
status_forcelist == {429, 500, 502, 503, 504}

\* Retry.RETRY_AFTER_STATUS_CODES; respect_retry_after_header is left at its
\* default True by the Retry(...) call of lines 56-61
RETRY_AFTER_STATUS_CODES == {413, 429, 503}

\* what one attempt can meet: a status, with or without a Retry-After header,
\* or a timeout
Statuses == {200, 404, 413, 429, 500, 503}

Timeout == [kind |-> "timeout", status |-> 0, retry_after |-> FALSE]

Answers ==
    {[kind |-> "status", status |-> st, retry_after |-> ra] :
        st \in Statuses, ra \in BOOLEAN} \cup {Timeout}

RetryIdle == [pc |-> "idle", total |-> max_retries, history |-> <<>>, result |-> "none", gets |-> 0]

\* Retry.is_retry for a GET: a forced status, or a Retry-After header on one of
\* RETRY_AFTER_STATUS_CODES while total is not 0
is_retry(a, total) ==
    \/ a.status \in status_forcelist
    \/ total # 0 /\ a.retry_after /\ a.status \in RETRY_AFTER_STATUS_CODES

\* Retry.is_exhausted after increment: a counter below 0
is_exhausted(total) == total < 0

\* get, lines 165-172: what get makes of a response it is handed
get_status_result(st) == IF st = 200 THEN "response" ELSE "null"

\* line 163: self._session.get(url, timeout=...) is entered
session_get_start ==
    /\ retry.pc \in {"idle", "done"}
    /\ retry.gets < MaxGets
    /\ retry' = [RetryIdle EXCEPT !.pc = "attempt", !.gets = retry.gets + 1]

\* one attempt of the adapter.  A timeout, or a response is_retry accepts, goes
\* through Retry.increment: MaxRetryError once exhausted (requests raises a
\* RequestException or a Timeout, lines 174-179: None), another attempt
\* otherwise.  Any other response is handed to lines 165-172.
session_get_attempt ==
    /\ retry.pc = "attempt"
    /\ \E a \in Answers :
          LET hist == Append(retry.history, a)
              again == a.kind = "timeout" \/ is_retry(a, retry.total)
              total == retry.total - 1
          IN retry' =
               IF again
                 THEN IF is_exhausted(total)
                        THEN [retry EXCEPT !.pc = "done", !.total = total,
                                           !.history = hist, !.result = "null"]
                        ELSE [retry EXCEPT !.total = total, !.history = hist]
                 ELSE [retry EXCEPT !.pc = "done", !.history = hist,
                                    !.result = get_status_result(a.status)]

\* ------------------------------------------------------------------------
\* The field-mapping cache of the parser (parser_service.py 38-48, 125-260)
\* ------------------------------------------------------------------------
\* line 45
_CACHE_TTL_SECONDS == 300

Coroutines == 1..MaxCoroutines

\* A field map is a set of <<source_key, target_field>> pairs, a source_key being
\* the sequence of its words.  _DEFAULT_FIELD_MAP (lines 50-99), two entries of it
_DEFAULT_FIELD_MAP == {<<<<"price">>, "price">>, <<<<"gross", "area">>, "gross_area">>}

\* _DEFAULT_FEATURE_MAP (lines 101-122), one entry of it
_DEFAULT_FEATURE_MAP == {<<<<"pool">>, "swimming_pool">>}

\* field maps the FieldMapping table can hold, the empty one included
DbFieldMaps ==
    { {},
      {<<<<"area">>, "useful_area">>},
      {<<<<"area">>, "gross_area">>, <<<<"useful", "area">>, "useful_area">>} }

DbFeatureMaps == { {}, {<<<<"lift">>, "elevator">>} }

DbContents == [field : DbFieldMaps, feature : DbFeatureMaps]

\* _build_token_index (125-143): every word of a source_key points to its entry
_build_token_index(field_map) ==
    UNION { {<<e[1][i], e>> : i \in 1..Len(e[1])} : e \in field_map }

LoaderIdle == [pc |-> "idle", now |-> 0, rows |-> None]

\* lines 183-187 and 192-196: the cache is filled and younger than the TTL
CacheFresh(now) ==
    /\ _CACHE_TIMESTAMP # None
    /\ _FIELD_MAP_CACHE # {}
    /\ now - _CACHE_TIMESTAMP[1] < _CACHE_TTL_SECONDS

\* lines 181-188: the check made before the lock is taken
load_check(c) ==
    /\ loader[c].pc \in {"idle", "done"}
    /\ loader' = [loader EXCEPT ![c] =
           [LoaderIdle EXCEPT !.pc = IF CacheFresh(utcnow) THEN "done" ELSE "lock"]]
    /\ UNCHANGED <<_FIELD_MAP_CACHE, _FEATURE_MAP_CACHE, _FIELD_TOKEN_INDEX,
                   _CACHE_TIMESTAMP, _cache_lock, field_mappings, utcnow, lastLookup>>

\* lines 190-197: the lock is taken and the check made again
load_acquire(c) ==
    /\ loader[c].pc = "lock"
    /\ _cache_lock = 0
    /\ IF CacheFresh(utcnow)
         THEN /\ loader' = [loader EXCEPT ![c].pc = "done"]
              /\ UNCHANGED _cache_lock
         ELSE /\ loader' = [loader EXCEPT ![c].pc = "query", ![c].now = utcnow]
              /\ _cache_lock' = c
    /\ UNCHANGED <<_FIELD_MAP_CACHE, _FEATURE_MAP_CACHE, _FIELD_TOKEN_INDEX,
                   _CACHE_TIMESTAMP, field_mappings, utcnow, lastLookup>>

\* lines 203-206: the SELECT of the active rows is answered, or raises
load_query(c) ==
    /\ loader[c].pc = "query"
    /\ \E rows \in {Some(field_mappings), None} :
          loader' = [loader EXCEPT ![c].pc = "assign", ![c].rows = rows]
    /\ UNCHANGED <<_FIELD_MAP_CACHE, _FEATURE_MAP_CACHE, _FIELD_TOKEN_INDEX,
                   _CACHE_TIMESTAMP, _cache_lock, field_mappings, utcnow, lastLookup>>

\* lines 231-236: the except branch
load_defaults(c) ==
    /\ _FIELD_MAP_CACHE' = _DEFAULT_FIELD_MAP
    /\ _FEATURE_MAP_CACHE' = _DEFAULT_FEATURE_MAP
    /\ _FIELD_TOKEN_INDEX' = _build_token_index(_DEFAULT_FIELD_MAP)
    /\ _CACHE_TIMESTAMP' = Some(loader[c].now)

\* a refresh that installs the new field map and leaves the token index as it was
load_assign_map_only(c) ==
    /\ loader[c].pc = "assign"
    /\ IF loader[c].rows = None
         THEN load_defaults(c) /\ _cache_lock' = 0
                               /\ loader' = [loader EXCEPT ![c].pc = "done"]
         ELSE LET rows == loader[c].rows[1] IN
              /\ _FIELD_MAP_CACHE' = IF rows.field # {} THEN rows.field ELSE _FIELD_MAP_CACHE
              /\ UNCHANGED _FIELD_TOKEN_INDEX
              /\ _FEATURE_MAP_CACHE' =
                     IF rows.feature # {} THEN rows.feature ELSE _FEATURE_MAP_CACHE
              /\ _CACHE_TIMESTAMP' = Some(loader[c].now)
              /\ loader' = [loader EXCEPT ![c].pc = "close"]
              /\ UNCHANGED _cache_lock
    /\ UNCHANGED <<field_mappings, utcnow, lastLookup>>

\* lines 207-229, everything between the answer of the SELECT and the close of
\* the session, with no await in it; a SELECT that raised goes to lines 231-236
load_assign(c) ==
    /\ loader[c].pc = "assign"
    /\ IF loader[c].rows = None
         THEN load_defaults(c) /\ _cache_lock' = 0
                               /\ loader' = [loader EXCEPT ![c].pc = "done"]
         ELSE LET rows == loader[c].rows[1] IN
              /\ _FIELD_MAP_CACHE' = IF rows.field # {} THEN rows.field ELSE _FIELD_MAP_CACHE
              /\ _FIELD_TOKEN_INDEX' =
                     IF rows.field # {} THEN _build_token_index(rows.field)
                                        ELSE _FIELD_TOKEN_INDEX
              /\ _FEATURE_MAP_CACHE' =
                     IF rows.feature # {} THEN rows.feature ELSE _FEATURE_MAP_CACHE
              /\ _CACHE_TIMESTAMP' = Some(loader[c].now)
              /\ loader' = [loader EXCEPT ![c].pc = "close"]
              /\ UNCHANGED _cache_lock
    /\ UNCHANGED <<field_mappings, utcnow, lastLookup>>

\* the session of line 203 is closed and the lock released; a close that raises
\* goes to lines 231-236
load_close(c) ==
    /\ loader[c].pc = "close"
    /\ \/ UNCHANGED <<_FIELD_MAP_CACHE, _FEATURE_MAP_CACHE, _FIELD_TOKEN_INDEX,
                       _CACHE_TIMESTAMP>>
       \/ load_defaults(c)
    /\ _cache_lock' = 0
    /\ loader' = [loader EXCEPT ![c].pc = "done"]
    /\ UNCHANGED <<field_mappings, utcnow, lastLookup>>

\* lines 239-240
_get_field_map == IF _FIELD_MAP_CACHE # {} THEN _FIELD_MAP_CACHE ELSE _DEFAULT_FIELD_MAP

\* lines 247-250
_get_token_index ==
    IF _FIELD_TOKEN_INDEX # {} THEN _FIELD_TOKEN_INDEX
                               ELSE _build_token_index(_DEFAULT_FIELD_MAP)

\* lines 486-487 and 541-542: a lookup takes the index and the map in two
\* statements of a function that never awaits
lookup ==
    /\ lastLookup' = Some([field_map |-> _get_field_map, token_index |-> _get_token_index])
    /\ UNCHANGED <<_FIELD_MAP_CACHE, _FEATURE_MAP_CACHE, _FIELD_TOKEN_INDEX,
                   _CACHE_TIMESTAMP, _cache_lock, field_mappings, loader, utcnow>>

\* invalidate_parser_cache (253-260)
invalidate_parser_cache ==
    /\ _FIELD_MAP_CACHE' = {}
    /\ _FEATURE_MAP_CACHE' = {}
    /\ _FIELD_TOKEN_INDEX' = {}
    /\ _CACHE_TIMESTAMP' = None
    /\ UNCHANGED <<_cache_lock, field_mappings, loader, utcnow, lastLookup>>

\* the FieldMapping rows are edited
update_field_mappings ==
    /\ \E rows \in DbContents : field_mappings' = rows /\ rows # field_mappings
    /\ UNCHANGED <<_FIELD_MAP_CACHE, _FEATURE_MAP_CACHE, _FIELD_TOKEN_INDEX,
                   _CACHE_TIMESTAMP, _cache_lock, loader, utcnow, lastLookup>>

\* time passes
utcnow_advance ==
    /\ utcnow + UtcStep <= MaxUtcnow
    /\ utcnow' = utcnow + UtcStep
    /\ UNCHANGED <<_FIELD_MAP_CACHE, _FEATURE_MAP_CACHE, _FIELD_TOKEN_INDEX,
                   _CACHE_TIMESTAMP, _cache_lock, field_mappings, loader, lastLookup>>

\* ------------------------------------------------------------------------
\* The responses of cancel_job and delete_job, and the removal of a site
\* ------------------------------------------------------------------------
\* sites.py 143-168 with permanent=true: the SiteConfig row is deleted
delete_site_permanent ==
    /\ site \in {"active", "inactive"}
    /\ site' = "absent"
    /\ UNCHANGED <<status, progress, max_pages, createPc, createResult, cancelPc,
                   deletePc, worker, cancelledRunning, ckptAfterCancel>>

\* sites.py 86-109: a SiteConfig row is created, active by default
create_site ==
    /\ site = "absent"
    /\ site' = "active"
    /\ UNCHANGED <<status, progress, max_pages, createPc, createResult, cancelPc,
                   deletePc, worker, cancelledRunning, ckptAfterCancel>>

\* scrape_jobs.py 117-124: NotFoundError for a missing row, the conflict error
\* for a row that is neither pending nor running; nothing is written
cancel_job_refused(j) ==
    /\ cancelPc[j] = "idle"
    /\ ~(RowExists(j) /\ Cancellable(status[j]))
    /\ cancelResult' = [cancelResult EXCEPT ![j] =
           IF RowExists(j) THEN "conflict" ELSE "not_found"]
    /\ UNCHANGED <<jobVars, deleteResult>>

\* scrape_jobs.py 117-124 passed: the request goes on to mark_cancelled
cancel_job_accepted(j) ==
    /\ cancel_job_read(j)
    /\ cancelResult' = [cancelResult EXCEPT ![j] = "none"]
    /\ UNCHANGED deleteResult

\* scrape_jobs.py 126-131: the UPDATE and the response; an UPDATE that matches
\* no row (the job was deleted meanwhile) raises
cancel_job_flushed(j) ==
    /\ cancel_job_commit(j)
    /\ cancelResult' = [cancelResult EXCEPT ![j] =
           IF RowExists(j) THEN "cancelled" ELSE "error"]
    /\ UNCHANGED deleteResult

\* scrape_jobs.py 137-142: NotFoundError for a missing row, the conflict error
\* for a running one; nothing is written
delete_job_refused(j) ==
    /\ deletePc[j] = "idle"
    /\ ~(RowExists(j) /\ Deletable(status[j]))
    /\ deleteResult' = [deleteResult EXCEPT ![j] =
           IF RowExists(j) THEN "conflict" ELSE "not_found"]
    /\ UNCHANGED <<jobVars, cancelResult>>

\* scrape_jobs.py 137-142 passed: the request goes on to db.delete
delete_job_accepted(j) ==
    /\ delete_job_read(j)
    /\ deleteResult' = [deleteResult EXCEPT ![j] = "none"]
    /\ UNCHANGED cancelResult

\* scrape_jobs.py 143-145: the DELETE and the response
delete_job_flushed(j) ==
    /\ delete_job_commit(j)
    /\ deleteResult' = [deleteResult EXCEPT ![j] =
           IF RowExists(j) THEN "deleted" ELSE "error"]
    /\ UNCHANGED cancelResult

\* ------------------------------------------------------------------------
\* One crawl followed from create_job to its end (scraper_service.py 135-215)
\* ------------------------------------------------------------------------
\* history of a crawl: what the fetch of the start page returned, the page
\* fetches made, the links found,
\* the scraper.get calls made for detail pages and those that returned a response
NoCrawl == [start |-> "none", pages |-> 0, found |-> 0, detail_calls |-> 0, detail_ok |-> 0]

\* scraper.get returns None for every URL of a host whose robots.txt cannot be
\* loaded (ethics_service.py 114-116 and 155-156)
GetAnswers(answers) == IF robotsBlocked THEN {"null"} ELSE answers

\* lines 143-160 with the history of what was fetched
crawl_fetch_page(j) ==
    \E resp \in GetAnswers({"null", "html", "raise"}), n \in 0..MaxLinks, nxt \in BOOLEAN :
        /\ fetch_page_resp(j, resp, n, nxt)
        /\ crawlHist' = [crawlHist EXCEPT
               ![j].start = IF worker[j].page_num = 0 THEN resp ELSE @,
               ![j].pages = @ + 1,
               ![j].found = @ + n]
        /\ UNCHANGED robotsBlocked

\* lines 168-205 with the history of what was fetched
crawl_fetch_detail(j) ==
    \E resp \in GetAnswers({"null", "html"}) :
        /\ fetch_detail_resp(j, resp)
        /\ crawlHist' = [crawlHist EXCEPT
               ![j].detail_calls = @ + 1,
               ![j].detail_ok = @ + (IF resp = "html" THEN 1 ELSE 0)]
        /\ UNCHANGED robotsBlocked

\* ------------------------------------------------------------------------
\* Specification of the job control API and the background runners
\* ------------------------------------------------------------------------
InitProgram ==
    /\ site = "active"
    /\ status = [j \in Jobs |-> "none"]
    /\ progress = [j \in Jobs |-> ZeroProgress]
    /\ max_pages = [j \in Jobs |-> 1]
    /\ createPc = [r \in Reqs |-> "idle"]
    /\ createResult = [r \in Reqs |-> "none"]
    /\ cancelPc = [j \in Jobs |-> "idle"]
    /\ deletePc = [j \in Jobs |-> "idle"]
    /\ worker = [j \in Jobs |-> IdleWorker]
    /\ cancelledRunning = [j \in Jobs |-> FALSE]
    /\ ckptAfterCancel = [j \in Jobs |-> FALSE]
    /\ sse = SseIdle
    /\ sseTerminalSeen = FALSE
    /\ robots_cache = [d \in Hosts |-> NoEntry]
    /\ cache_timestamps = [d \in Hosts |-> 0]
    /\ clock = 0
    /\ visited_urls = {}
    /\ requested = {}
    /\ fetchPc = [pc |-> "idle", url |-> CHOOSE u \in Urls : TRUE]
    /\ getResult = "none"
    /\ robotsRetrieved = [d \in Hosts |-> FALSE]
    /\ listings = [u \in SourceUrls |-> NoRow]
    /\ media_assets = <<>>
    /\ price_history = <<>>
    /\ nextListingId = 1
    /\ persistPc = PersistIdle
    /\ lastRecord = [u \in SourceUrls |-> None]
    /\ crawlHist = [j \in Jobs |-> NoCrawl]
    /\ cancelResult = [j \in Jobs |-> "none"]
    /\ deleteResult = [j \in Jobs |-> "none"]
    /\ skipped = {}
    /\ retry = RetryIdle
    /\ _FIELD_MAP_CACHE = {}
    /\ _FEATURE_MAP_CACHE = {}
    /\ _FIELD_TOKEN_INDEX = {}
    /\ _CACHE_TIMESTAMP = None
    /\ _cache_lock = 0
    /\ field_mappings = [field |-> {}, feature |-> {}]
    /\ loader = [c \in Coroutines |-> LoaderIdle]
    /\ utcnow = 0
    /\ lastLookup = None
    /\ listing_rows = {}
    /\ nextRowId = 1
    /\ creator = [r \in 1..MaxCreators |-> [pc |-> "idle", url |-> <<>>, result |-> "none"]]
    /\ upsert = [pc |-> "idle", url |-> <<>>, existing |-> 0, result |-> "none"]
    /\ priceCase = [prefix |-> <<>>, groups |-> <<>>, seps |-> <<>>, suffix |-> <<>>]
    /\ priceOut = [amount |-> <<>>, currency |-> <<>>]
    /\ site_configs = [k \in {"s1", "s2"} |-> <<>>]
    /\ siteNow = 0
    /\ siteCall = [op |-> "none", key |-> "s1", permanent |-> FALSE, result |-> "none", data |-> <<>>]
    /\ logs = [j \in Jobs |-> <<>>]
    /\ urls = [j \in Jobs |-> <<>>]
    /\ tracked = [j \in Jobs |-> <<>>]
    /\ logged = [j \in Jobs |-> <<>>]
    /\ lastFetch = [kind |-> "none", resp |-> "none", errors_before |-> 0, errors_after |-> 0]
    /\ pager = [pc |-> "idle", pagination_type |-> "html_next", pagination_param |-> <<>>, next_page_selector |-> FALSE, max_pages |-> 1, page_num |-> 0, current_url |-> [kind |-> "start", n |-> 0, param |-> <<>>], next_link |-> <<>>, next_url |-> <<>>]
    /\ _CURRENCY_MAP_CACHE = <<>>
    /\ mapper_CACHE_TIMESTAMP = <<>>
    /\ currencyLoader = [pc |-> "idle", now |-> 0]
    /\ loadFailed = [field |-> <<>>, currency |-> <<>>]
    /\ loadHist = [waited |-> {}, loaded |-> <<>>]
    /\ rescrape = [pc |-> "idle", existing |-> <<>>, listing_data |-> <<>>, row |-> <<>>, price_record |-> <<>>]

Init == InitProgram /\ robotsBlocked = FALSE

Next ==
    \/ delete_site /\ UNCHANGED <<sseVars, fetchVars, persistVars, auxVars>>
    \/ reactivate_site /\ UNCHANGED <<sseVars, fetchVars, persistVars, auxVars>>
    \/ \E r \in Reqs : create_job_check_running(r) /\ UNCHANGED <<sseVars, fetchVars, persistVars, auxVars>>
    \/ \E r \in Reqs : create_job_check_site(r) /\ UNCHANGED <<sseVars, fetchVars, persistVars, auxVars>>
    \/ \E r \in Reqs : create_job_commit(r, MaxJobs) /\ UNCHANGED <<sseVars, fetchVars, persistVars, auxVars>>
    \/ \E j \in Jobs : cancel_job_read(j) /\ UNCHANGED <<sseVars, fetchVars, persistVars, auxVars>>
    \/ \E j \in Jobs : cancel_job_commit(j) /\ UNCHANGED <<sseVars, fetchVars, persistVars, auxVars>>
    \/ \E j \in Jobs : delete_job_read(j) /\ UNCHANGED <<sseVars, fetchVars, persistVars, auxVars>>
    \/ \E j \in Jobs : delete_job_commit(j) /\ UNCHANGED <<sseVars, fetchVars, persistVars, auxVars>>
    \/ \E j \in Jobs : run_scrape_job_load(j) /\ UNCHANGED <<sseVars, fetchVars, persistVars, auxVars>>
    \/ \E j \in Jobs : run_scrape_job_claim(j) /\ UNCHANGED <<sseVars, fetchVars, persistVars, auxVars>>
    \/ \E j \in Jobs : page_checkpoint(j) /\ UNCHANGED <<sseVars, fetchVars, persistVars, auxVars>>
    \/ \E j \in Jobs : fetch_page(j) /\ UNCHANGED <<sseVars, fetchVars, persistVars, auxVars>>
    \/ \E j \in Jobs : link_checkpoint(j) /\ UNCHANGED <<sseVars, fetchVars, persistVars, auxVars>>
    \/ \E j \in Jobs : fetch_detail(j) /\ UNCHANGED <<sseVars, fetchVars, persistVars, auxVars>>
    \/ \E j \in Jobs : complete_job(j) /\ UNCHANGED <<sseVars, fetchVars, persistVars, auxVars>>
    \/ \E j \in Jobs : fail_job(j) /\ UNCHANGED <<sseVars, fetchVars, persistVars, auxVars>>

Spec == Init /\ [][Next]_vars

\* One job and one subscriber of its progress stream
NextSSE ==
    \/ delete_site /\ UNCHANGED <<sse, fetchVars, persistVars, auxVars>> /\ NoteTerminal
    \/ reactivate_site /\ UNCHANGED <<sse, fetchVars, persistVars, auxVars>> /\ NoteTerminal
    \/ \E r \in Reqs : create_job_check_running(r) /\ UNCHANGED <<sse, fetchVars, persistVars, auxVars>> /\ NoteTerminal
    \/ \E r \in Reqs : create_job_check_site(r) /\ UNCHANGED <<sse, fetchVars, persistVars, auxVars>> /\ NoteTerminal
    \/ \E r \in Reqs : create_job_commit(r, SseJob) /\ UNCHANGED <<sse, fetchVars, persistVars, auxVars>> /\ NoteTerminal
    \/ \E j \in {SseJob} : cancel_job_read(j) /\ UNCHANGED <<sse, fetchVars, persistVars, auxVars>> /\ NoteTerminal
    \/ \E j \in {SseJob} : cancel_job_commit(j) /\ UNCHANGED <<sse, fetchVars, persistVars, auxVars>> /\ NoteTerminal
    \/ \E j \in {SseJob} : delete_job_read(j) /\ UNCHANGED <<sse, fetchVars, persistVars, auxVars>> /\ NoteTerminal
    \/ \E j \in {SseJob} : delete_job_commit(j) /\ UNCHANGED <<sse, fetchVars, persistVars, auxVars>> /\ NoteTerminal
    \/ \E j \in {SseJob} : run_scrape_job_load(j) /\ UNCHANGED <<sse, fetchVars, persistVars, auxVars>> /\ NoteTerminal
    \/ \E j \in {SseJob} : run_scrape_job_claim(j) /\ UNCHANGED <<sse, fetchVars, persistVars, auxVars>> /\ NoteTerminal
    \/ \E j \in {SseJob} : page_checkpoint(j) /\ UNCHANGED <<sse, fetchVars, persistVars, auxVars>> /\ NoteTerminal
    \/ \E j \in {SseJob} : fetch_page(j) /\ UNCHANGED <<sse, fetchVars, persistVars, auxVars>> /\ NoteTerminal
    \/ \E j \in {SseJob} : link_checkpoint(j) /\ UNCHANGED <<sse, fetchVars, persistVars, auxVars>> /\ NoteTerminal
    \/ \E j \in {SseJob} : fetch_detail(j) /\ UNCHANGED <<sse, fetchVars, persistVars, auxVars>> /\ NoteTerminal
    \/ \E j \in {SseJob} : complete_job(j) /\ UNCHANGED <<sse, fetchVars, persistVars, auxVars>> /\ NoteTerminal
    \/ \E j \in {SseJob} : fail_job(j) /\ UNCHANGED <<sse, fetchVars, persistVars, auxVars>> /\ NoteTerminal
    \/ sse_connect /\ UNCHANGED <<jobVars, fetchVars, persistVars, auxVars>>
    \/ sse_disconnected /\ UNCHANGED <<jobVars, fetchVars, persistVars, auxVars>>
    \/ sse_poll /\ UNCHANGED <<jobVars, fetchVars, persistVars, auxVars>>

SpecSSE == Init /\ [][NextSSE]_vars

\* One EthicalScraper serving get calls, with robots.txt answers chosen by the hosts
NextFetch ==
    \/ \E u \in Urls : get_is_visited(u) /\ UNCHANGED <<jobVars, sseVars, persistVars, auxVars>>
    \/ get_allowed /\ UNCHANGED <<jobVars, sseVars, persistVars, auxVars>>
    \/ get_sleep /\ UNCHANGED <<jobVars, sseVars, persistVars, auxVars>>
    \/ get_request /\ UNCHANGED <<jobVars, sseVars, persistVars, auxVars>>
    \/ reset_visited /\ UNCHANGED <<jobVars, sseVars, persistVars, auxVars>>
    \/ clock_advance /\ UNCHANGED <<jobVars, sseVars, persistVars, auxVars>>

SpecFetch == Init /\ [][NextFetch]_vars

\* One EthicalScraper from construction to close with no reset_visited, as in
\* _run_scrape_async; skipped notes the calls that returned at the visited check
NoteSkipped(u) == skipped' = IF u \in visited_urls THEN skipped \cup {u} ELSE skipped

NextFetchLifetime ==
    \/ \E u \in Urls : get_is_visited(u) /\ NoteSkipped(u) /\ UNCHANGED exceptFetchVars
    \/ get_allowed /\ UNCHANGED <<exceptFetchVars, skipped>>
    \/ get_sleep /\ UNCHANGED <<exceptFetchVars, skipped>>
    \/ get_request /\ UNCHANGED <<exceptFetchVars, skipped>>
    \/ clock_advance /\ UNCHANGED <<exceptFetchVars, skipped>>

SpecFetchLifetime == Init /\ [][NextFetchLifetime]_vars

\* The request step of get with the attempts of the Retry adapter
exceptRetryVars == <<jobVars, sseVars, fetchVars, persistVars, crawlVars, apiVars, skipped,
                    parserVars,
    rowVars,
    priceVars,
    siteVars,
    logVars,
    pagerVars,
    mapperVars,
    loadHistVars,
    rescrapeVars>>

NextRetry ==
    \/ session_get_start /\ UNCHANGED exceptRetryVars
    \/ session_get_attempt /\ UNCHANGED exceptRetryVars

SpecRetry == Init /\ [][NextRetry]_vars

\* Refreshes of the field-mapping cache by two coroutines, beside lookups
exceptParserVars == <<jobVars, sseVars, fetchVars, persistVars, crawlVars, apiVars, skipped,
                     retry,
    rowVars,
    priceVars,
    siteVars,
    logVars,
    pagerVars,
    mapperVars,
    loadHistVars,
    rescrapeVars>>

NextParser ==
    \/ \E c \in Coroutines : load_check(c) /\ UNCHANGED exceptParserVars
    \/ \E c \in Coroutines : load_acquire(c) /\ UNCHANGED exceptParserVars
    \/ \E c \in Coroutines : load_query(c) /\ UNCHANGED exceptParserVars
    \/ \E c \in Coroutines : load_assign(c) /\ UNCHANGED exceptParserVars
    \/ \E c \in Coroutines : load_close(c) /\ UNCHANGED exceptParserVars
    \/ lookup /\ UNCHANGED exceptParserVars
    \/ invalidate_parser_cache /\ UNCHANGED exceptParserVars
    \/ update_field_mappings /\ UNCHANGED exceptParserVars
    \/ utcnow_advance /\ UNCHANGED exceptParserVars

SpecParser == Init /\ [][NextParser]_vars

\* Rescrapes through _persist_listing, with the listings API used alongside
NextPersist ==
    \/ \E schema \in Records : persist_listing_select(schema)
          /\ UNCHANGED <<jobVars, sseVars, fetchVars, auxVars>>
    \/ persist_listing_commit /\ UNCHANGED <<jobVars, sseVars, fetchVars, auxVars>>
    \/ \E u \in SourceUrls, price \in ObservedPrices, media \in MediaLists :
          create_listing(u, price, media) /\ UNCHANGED <<jobVars, sseVars, fetchVars, auxVars>>
    \/ \E u \in SourceUrls, price \in ObservedPrices :
          update_listing(u, price) /\ UNCHANGED <<jobVars, sseVars, fetchVars, auxVars>>
    \/ \E u \in SourceUrls : delete_listing(u) /\ UNCHANGED <<jobVars, sseVars, fetchVars, auxVars>>

SpecPersist == Init /\ [][NextPersist]_vars

\* Inserts and rescrapes by _persist_listing of records with the image lists
\* _parse_images (parser_service.py 694-714) can give: every <img> matched is
\* appended, so a URL may come twice
ParsedMediaLists ==
    {<<>>,
     <<"https://a.test/img/1.jpg">>,
     <<"https://a.test/img/1.jpg", "https://a.test/img/2.jpg">>,
     <<"https://a.test/img/1.jpg", "https://a.test/img/1.jpg">>}

MediaRecords == [source_url : SourceUrls, price : {Some(300000)}, media : ParsedMediaLists]

NextMedia ==
    \/ \E schema \in MediaRecords : persist_listing_select(schema)
          /\ UNCHANGED <<jobVars, sseVars, fetchVars, auxVars>>
    \/ persist_listing_commit /\ UNCHANGED <<jobVars, sseVars, fetchVars, auxVars>>
    \/ \E u \in SourceUrls : delete_listing(u) /\ UNCHANGED <<jobVars, sseVars, fetchVars, auxVars>>

SpecMedia == Init /\ [][NextMedia]_vars

\* Jobs created and crawled with nobody cancelling, deleting or deactivating;
\* the crawled host may be one whose robots.txt cannot be loaded
InitCrawl == InitProgram /\ robotsBlocked \in BOOLEAN

NextCrawl ==
    \/ \E r \in Reqs : create_job_check_running(r)
          /\ UNCHANGED <<sseVars, fetchVars, persistVars, auxVars>>
    \/ \E r \in Reqs : create_job_check_site(r)
          /\ UNCHANGED <<sseVars, fetchVars, persistVars, auxVars>>
    \/ \E r \in Reqs : create_job_commit(r, MaxJobs)
          /\ UNCHANGED <<sseVars, fetchVars, persistVars, auxVars>>
    \/ \E j \in Jobs : run_scrape_job_load(j)
          /\ UNCHANGED <<sseVars, fetchVars, persistVars, auxVars>>
    \/ \E j \in Jobs : run_scrape_job_claim(j)
          /\ UNCHANGED <<sseVars, fetchVars, persistVars, auxVars>>
    \/ \E j \in Jobs : page_checkpoint(j)
          /\ UNCHANGED <<sseVars, fetchVars, persistVars, auxVars>>
    \/ \E j \in Jobs : crawl_fetch_page(j)
          /\ UNCHANGED exceptCrawlVars
    \/ \E j \in Jobs : link_checkpoint(j)
          /\ UNCHANGED <<sseVars, fetchVars, persistVars, auxVars>>
    \/ \E j \in Jobs : crawl_fetch_detail(j)
          /\ UNCHANGED exceptCrawlVars
    \/ \E j \in Jobs : complete_job(j)
          /\ UNCHANGED <<sseVars, fetchVars, persistVars, auxVars>>
    \/ \E j \in Jobs : fail_job(j)
          /\ UNCHANGED <<sseVars, fetchVars, persistVars, auxVars>>

SpecCrawl == InitCrawl /\ [][NextCrawl]_vars

\* The job control API with its responses, beside the runner of the job
ControlJobs == 1..MaxControlJobs

NextControl ==
    \/ \E r \in Reqs : create_job_check_running(r)
          /\ UNCHANGED <<sseVars, fetchVars, persistVars, auxVars>>
    \/ \E r \in Reqs : create_job_check_site(r)
          /\ UNCHANGED <<sseVars, fetchVars, persistVars, auxVars>>
    \/ \E r \in Reqs : create_job_commit(r, MaxControlJobs)
          /\ UNCHANGED <<sseVars, fetchVars, persistVars, auxVars>>
    \/ \E j \in ControlJobs : cancel_job_refused(j)
          /\ UNCHANGED exceptApiVars
    \/ \E j \in ControlJobs : cancel_job_accepted(j)
          /\ UNCHANGED exceptApiVars
    \/ \E j \in ControlJobs : cancel_job_flushed(j)
          /\ UNCHANGED exceptApiVars
    \/ \E j \in ControlJobs : delete_job_refused(j)
          /\ UNCHANGED exceptApiVars
    \/ \E j \in ControlJobs : delete_job_accepted(j)
          /\ UNCHANGED exceptApiVars
    \/ \E j \in ControlJobs : delete_job_flushed(j)
          /\ UNCHANGED exceptApiVars
    \/ delete_site
          /\ UNCHANGED <<sseVars, fetchVars, persistVars, auxVars>>
    \/ reactivate_site
          /\ UNCHANGED <<sseVars, fetchVars, persistVars, auxVars>>
    \/ delete_site_permanent
          /\ UNCHANGED <<sseVars, fetchVars, persistVars, auxVars>>
    \/ create_site
          /\ UNCHANGED <<sseVars, fetchVars, persistVars, auxVars>>
    \/ \E j \in ControlJobs : run_scrape_job_load(j)
          /\ UNCHANGED <<sseVars, fetchVars, persistVars, auxVars>>
    \/ \E j \in ControlJobs : run_scrape_job_claim(j)
          /\ UNCHANGED <<sseVars, fetchVars, persistVars, auxVars>>
    \/ \E j \in ControlJobs : page_checkpoint(j)
          /\ UNCHANGED <<sseVars, fetchVars, persistVars, auxVars>>
    \/ \E j \in ControlJobs : fetch_page(j)
          /\ UNCHANGED <<sseVars, fetchVars, persistVars, auxVars>>
    \/ \E j \in ControlJobs : link_checkpoint(j)
          /\ UNCHANGED <<sseVars, fetchVars, persistVars, auxVars>>
    \/ \E j \in ControlJobs : fetch_detail(j)
          /\ UNCHANGED <<sseVars, fetchVars, persistVars, auxVars>>
    \/ \E j \in ControlJobs : complete_job(j)
          /\ UNCHANGED <<sseVars, fetchVars, persistVars, auxVars>>
    \/ \E j \in ControlJobs : fail_job(j)
          /\ UNCHANGED <<sseVars, fetchVars, persistVars, auxVars>>

SpecControl == Init /\ [][NextControl]_vars



\* ------------------------------------------------------------------------
\* Claims on the job state machine (specification Spec)
\* ------------------------------------------------------------------------
CrawlPcs == {"page_ckpt", "fetch_page", "link_ckpt", "fetch_detail", "complete", "fail"}

FetchPcs == {"fetch_page", "fetch_detail"}

InCrawl(j) == worker[j].pc \in CrawlPcs

\* C1: at every moment at most one ScrapeJob has status = running.
C1_SingleRunningJob == Cardinality(RunningJobs) <= 1

\* C2: once the status of a job is completed, failed or cancelled, no step of
\* cancel_job, run_scrape_job, _complete_job or _fail_job changes it again
\* (the row may still be deleted).
C2_TerminalIsFinal ==
    [][\A j \in Jobs :
          status[j] \in TerminalStatuses => status'[j] \in {status[j], "deleted"}]_vars

AllowedTransitions ==
    {<<"pending", "running">>, <<"running", "completed">>, <<"running", "failed">>,
     <<"running", "cancelled">>, <<"pending", "cancelled">>}

\* C3: every change of the status of an existing job is one of the five
\* transitions pending->running, running->completed, running->failed,
\* running->cancelled, pending->cancelled.
C3_OnlyStateMachineTransitions ==
    [][\A j \in Jobs :
          (RowExists(j) /\ status'[j] \in RowStatuses /\ status'[j] # status[j])
             => <<status[j], status'[j]>> \in AllowedTransitions]_vars

\* C4: after cancel_job has committed status = cancelled over a running job, the
\* first checkpoint the crawl loop reaches observes it: from that checkpoint on
\* the worker is never about to issue an HTTP fetch, pages_visited does not
\* grow, and when the task has ended the stored status is cancelled.
C4_CancelObservedAtCheckpoint ==
    /\ [](\A j \in Jobs :
            ckptAfterCancel[j] =>
               /\ worker[j].pc \notin FetchPcs
               /\ (worker[j].pc = "done" /\ RowExists(j) => status[j] = "cancelled"))
    /\ [][\A j \in Jobs :
            ckptAfterCancel[j] => worker'[j].pages_visited <= worker[j].pages_visited]_vars

\* C5: a create_job call that runs its running-job query while some job has
\* status = running ends with the job-running conflict error, adds no
\* ScrapeJob row and schedules no runner.
C5_CreateRefusedWhileRunning ==
    [][\A r \in Reqs :
          (/\ createPc[r] = "idle"
           /\ RunningJobs # {}
           /\ <<createPc[r], createResult[r]>>' # <<createPc[r], createResult[r]>>)
             => /\ createPc'[r] = "idle"
                /\ createResult'[r] = "job_running_conflict"
                /\ status' = status
                /\ worker' = worker]_vars

\* C6: at any moment at most one background task is inside _run_scrape_async.
C6_AtMostOneCrawlWorker == Cardinality({j \in Jobs : InCrawl(j)}) <= 1

\* C11: while a job stays running, no committed write lowers any of the four
\* counters of its progress record.
C11_MonotonicProgress ==
    [][\A j \in Jobs :
          (status[j] = "running" /\ status'[j] = "running")
             => \A k \in DOMAIN ZeroProgress : progress'[j][k] >= progress[j][k]]_vars

\* the committed progress of a running job differs from the record mark_running wrote
C11_ProgressWritten ==
    \E j \in Jobs : status[j] = "running" /\ progress[j] # ZeroProgress


\* C12: a job whose start URL is on a host whose robots.txt cannot be loaded gets
\* null from the search-page fetch, ends completed, and its job record shows
\* listings_scraped = 0 and errors >= 1, with no request for any detail page.
C12_RobotsBlockedJob ==
    \A j \in Jobs :
        (robotsBlocked /\ worker[j].pc = "done" /\ crawlHist[j].start # "none")
            => /\ crawlHist[j].start = "null"
               /\ status[j] = "completed"
               /\ progress[j].listings_scraped = 0
               /\ progress[j].errors >= 1
               /\ crawlHist[j].detail_calls = 0

\* C13: a crawl whose search page yields one listing link and whose detail page
\* is fetched successfully ends completed with listings_scraped = 1, one listings
\* row for the link and no price_history row.
C13_OneListingCrawl ==
    \A j \in Jobs :
        (/\ worker[j].pc = "done"
         /\ crawlHist[j].start = "html"
         /\ crawlHist[j].pages = 1
         /\ crawlHist[j].found = 1
         /\ crawlHist[j].detail_calls = 1
         /\ crawlHist[j].detail_ok = 1)
            => /\ status[j] = "completed"
               /\ progress[j].listings_scraped = 1
               /\ Cardinality({u \in SourceUrls : listings[u] # NoRow}) = 1
               /\ Len(price_history) = 0


\* C14: cancel_job sets the status to cancelled exactly when the status it read
\* is pending or running; for a completed, failed or cancelled job it answers
\* with a conflict and leaves the job record unchanged.
C14_CancelContract ==
    [][\A j \in ControlJobs :
          LET acted == cancelPc'[j] # cancelPc[j] \/ cancelResult'[j] # cancelResult[j]
          IN
          /\ (cancelPc[j] = "idle" /\ acted /\ status[j] \in TerminalStatuses)
                => /\ cancelResult'[j] = "conflict"
                   /\ cancelPc'[j] = "idle"
                   /\ status'[j] = status[j]
                   /\ progress'[j] = progress[j]
          /\ (cancelPc[j] = "idle" /\ acted /\ status[j] \in {"pending", "running"})
                => cancelPc'[j] = "flush"
          /\ (cancelPc[j] = "idle" /\ cancelPc'[j] = "flush")
                => status[j] \in {"pending", "running"}
          /\ (cancelPc[j] = "flush" /\ cancelPc'[j] = "idle" /\ RowExists(j))
                => status'[j] = "cancelled" /\ cancelResult'[j] = "cancelled"
          /\ (status'[j] = "cancelled" /\ status[j] # "cancelled")
                => cancelPc[j] = "flush"
          /\ (cancelResult'[j] = "conflict" /\ cancelResult[j] # "conflict")
                => status[j] \in TerminalStatuses
      ]_vars

\* a job was cancelled by one request and a later request got the conflict
C14_Witness ==
    \E j \in ControlJobs : status[j] = "cancelled" /\ cancelResult[j] = "conflict"

\* C15: delete_job removes the job record when the status it read is not running;
\* when it is running it answers with a conflict and the record stays unchanged.
C15_DeleteContract ==
    [][\A j \in ControlJobs :
          LET acted == deletePc'[j] # deletePc[j] \/ deleteResult'[j] # deleteResult[j]
          IN
          /\ (deletePc[j] = "idle" /\ acted /\ status[j] = "running")
                => /\ deleteResult'[j] = "conflict"
                   /\ deletePc'[j] = "idle"
                   /\ status'[j] = status[j]
                   /\ progress'[j] = progress[j]
          /\ (deletePc[j] = "idle" /\ acted /\ RowExists(j) /\ status[j] # "running")
                => deletePc'[j] = "flush"
          /\ (deletePc[j] = "idle" /\ deletePc'[j] = "flush")
                => RowExists(j) /\ status[j] # "running"
          /\ (deletePc[j] = "flush" /\ deletePc'[j] = "idle" /\ RowExists(j))
                => status'[j] = "deleted" /\ deleteResult'[j] = "deleted"
          /\ (status'[j] = "deleted" /\ status[j] # "deleted")
                => deletePc[j] = "flush"
          /\ (deleteResult'[j] = "conflict" /\ deleteResult[j] # "conflict")
                => status[j] = "running"
      ]_vars

\* a job was removed by a delete_job request and its runner has ended
C15_Witness ==
    \E j \in ControlJobs :
        status[j] = "deleted" /\ deleteResult[j] = "deleted" /\ worker[j].pc = "done"

\* C16: create_job for a site_key with no SiteConfig or an inactive one fails
\* with not_found and persists no job; for an active site and no running job it
\* persists a job with status pending and the four progress counters at 0.
C16_CreateContract ==
    [][/\ \A r \in Reqs :
            /\ (createPc[r] = "checked" /\ createPc'[r] # "checked" /\ site # "active")
                  => /\ createResult'[r] = "not_found"
                     /\ createPc'[r] = "idle"
                     /\ status' = status
                     /\ progress' = progress
            /\ (createPc[r] = "checked" /\ createPc'[r] # "checked" /\ site = "active")
                  => createPc'[r] = "sited" /\ status' = status
            /\ (createPc[r] = "sited" /\ createPc'[r] # "sited")
                  => /\ createResult'[r] = "created"
                     /\ \E j \in Jobs :
                           /\ status[j] = "none"
                           /\ status'[j] = "pending"
                           /\ progress'[j] = ZeroProgress
       /\ \A j \in Jobs :
            (status[j] = "none" /\ status'[j] # "none")
               => /\ status'[j] = "pending"
                  /\ progress'[j] = ZeroProgress
                  /\ \E r \in Reqs : createPc[r] = "sited"
      ]_vars

\* one request created a pending job with zero counters; after the site's
\* SiteConfig was removed, the next request got not_found
C16_Witness ==
    \E r \in Reqs, j \in Jobs :
        /\ site = "absent"
        /\ createResult[r] = "not_found"
        /\ status[j] = "pending"
        /\ progress[j] = ZeroProgress

\* ------------------------------------------------------------------------
\* Claims on the progress stream (specification SpecSSE)
\* ------------------------------------------------------------------------
\* one or more progress/status/heartbeat events, then a done event, then nothing
StreamEndsWithDone(ev) ==
    /\ Len(ev) >= 2
    /\ ev[Len(ev)].type = "done"
    /\ \A i \in 1..(Len(ev) - 1) : ev[i].type \in {"progress", "status", "heartbeat"}

LastEvent == sse.events[Len(sse.events)]

\* C10 as stated: for a subscriber that stays connected to an existing job that
\* reaches a terminal status, the closed stream consists of one or more
\* progress/status/heartbeat events followed by exactly one done event that
\* carries a terminal status.
C10_StreamEndsWithDone ==
    (sse.pc = "closed" /\ ~sse.disconnected /\ sseTerminalSeen)
        => /\ StreamEndsWithDone(sse.events)
           /\ LastEvent.status[1] \in TerminalStatuses

\* C10 amended: for a subscriber that stays connected, a stream that closes
\* without an error event consists of one or more progress/status/heartbeat
\* events followed by exactly one done event; the done event carries the
\* terminal status and the progress read from the committed row at that poll;
\* done is only ever the last event and the stream is closed once it is
\* emitted; a closed stream emits nothing more.  (When the row is deleted
\* before a poll sees it terminal, the stream ends with an error event instead.)
C10_StreamEndsWithDoneUnlessDeleted ==
    /\ [](/\ (sse.pc = "closed" /\ ~sse.disconnected /\ LastEvent.type # "error")
               => /\ StreamEndsWithDone(sse.events)
                  /\ LastEvent.status[1] \in TerminalStatuses
                  /\ LastEvent.status = sse.last_status
                  /\ LastEvent.progress = sse.last_progress
          /\ \A i \in 1..Len(sse.events) :
                sse.events[i].type = "done" => i = Len(sse.events) /\ sse.pc = "closed")
    /\ [][/\ sse.pc = "closed" => sse' = sse
          /\ (sse.pc = "polling" /\ sse'.pc = "closed" /\ sse'.events # sse.events
                 /\ sse'.events[Len(sse'.events)].type = "done")
               => /\ sse'.events[Len(sse'.events)].status = Some(status[SseJob])
                  /\ sse'.events[Len(sse'.events)].progress = Some(progress[SseJob])]_vars

\* a stream that polled a running job, sent a heartbeat, and closed with done
C10_Witness ==
    /\ sse.pc = "closed"
    /\ StreamEndsWithDone(sse.events)
    /\ \E i \in 1..Len(sse.events) : sse.events[i].type = "heartbeat"
    /\ LastEvent.status = Some("completed")

\* ------------------------------------------------------------------------
\* Claims on the ethical fetcher (specification SpecFetch)
\* ------------------------------------------------------------------------
RequestedUnder(h) == {u \in requested : _get_domain(u) = h}

PersistReturns == persistPc.pc = "selected" /\ persistPc'.pc = "idle"
PersistUrl == persistPc.schema[1].source_url
\* ... and it took the update branch on the row it had selected
PersistUpdates ==
    /\ PersistReturns
    /\ persistPc.existing # NoRow
    /\ listings[PersistUrl].id = persistPc.existing.id

\* C7: persisting the canonical record that was last persisted for a source_url
\* (same price, same media, the row untouched in between) leaves the one
\* listings row of that source_url in place and adds no media_assets row and
\* no price_history row.
C7_PersistIdempotent ==
    [][(PersistReturns /\ lastRecord[PersistUrl] = persistPc.schema)
          => /\ listings'[PersistUrl] # NoRow
             /\ listings'[PersistUrl].id = listings[PersistUrl].id
             /\ media_assets' = media_assets
             /\ price_history' = price_history]_vars

\* C8: a price_history row is appended exactly when a rescrape (or a price
\* update through the API) observes a price different from the stored one; the
\* row holds the price stored before, and after such a rescrape the listing
\* holds the observed price; a rescrape with an equal price appends no row.
C8_PriceHistoryLaw ==
    [][/\ PersistUpdates =>
             LET stored == listings[PersistUrl].price_amount
                 observed == persistPc.schema[1].price
             IN IF observed # None /\ stored # None /\ observed # stored
                  THEN /\ price_history' =
                             Append(price_history,
                                    [listing_id |-> listings[PersistUrl].id,
                                     price_amount |-> stored])
                       /\ listings'[PersistUrl].price_amount = observed
                  ELSE price_history' = price_history
       /\ Len(price_history') > Len(price_history) =>
             \/ PersistUpdates
             \/ persistPc' = persistPc /\ nextListingId' = nextListingId]_vars

\* ------------------------------------------------------------------------
\* Claims on the visited set and the rate limit of EthicalScraper.get
\* (specifications SpecFetchLifetime and SpecFetch)
\* ------------------------------------------------------------------------
\* C17: within one EthicalScraper lifetime without reset_visited, once get(url)
\* has issued an HTTP request for url, every later get(url) returns null and
\* issues no request: no call is ever about to request a URL requested before.
C17_VisitedOnce ==
    [][/\ fetchPc.pc = "request" => fetchPc.url \notin requested
       /\ (/\ fetchPc.pc = "idle"
           /\ (fetchPc' # fetchPc \/ getResult' # getResult \/ skipped' # skipped)
           /\ fetchPc'.url \in requested)
             => /\ getResult' = "null"
                /\ fetchPc'.pc = "idle"
                /\ requested' = requested
                /\ fetchPc'.url \in skipped'
      ]_vars

\* a URL that had been requested was asked for again and the call returned
\* null at the visited check
C17_Witness ==
    \E u \in requested :
        u \in skipped /\ fetchPc = [pc |-> "idle", url |-> u] /\ getResult = "null"

\* C18: every page request of get is preceded in the same call by the sleep,
\* which comes after the robots.txt approval and before the request; a get that
\* returns null at the visited check or at the robots check performs no sleep
\* and no request.
C18_SleepBeforeRequest ==
    [][/\ requested' # requested => fetchPc.pc = "request"
       /\ (fetchPc'.pc = "request" /\ fetchPc.pc # "request")
             => fetchPc.pc = "sleep" /\ fetchPc'.url = fetchPc.url
       /\ (fetchPc'.pc = "sleep" /\ fetchPc.pc # "sleep")
             => /\ fetchPc.pc = "allowed"
                /\ fetchPc'.url = fetchPc.url
                /\ allowed(robots_cache'[_get_domain(fetchPc.url)], fetchPc.url)
       /\ (fetchPc.pc = "allowed" /\ fetchPc'.pc = "idle")
             => /\ ~allowed(robots_cache'[_get_domain(fetchPc.url)], fetchPc.url)
                /\ getResult' = "null"
                /\ requested' = requested
       /\ (fetchPc.pc = "idle" /\ fetchPc'.pc = "idle" /\ getResult' # getResult)
             => /\ fetchPc'.url \in visited_urls
                /\ getResult' = "null"
                /\ requested' = requested
      ]_vars

\* a get was approved, slept and got its answer after one for a disallowed URL
\* of the other host had returned with no request
C18_Witness ==
    /\ fetchPc.pc = "idle"
    /\ getResult = "response"
    /\ fetchPc.url \in requested
    /\ robots_cache["blocked.test"] # NoEntry
    /\ RequestedUnder("blocked.test") = {}

\* ------------------------------------------------------------------------
\* Claim on the retries of EthicalScraper.get (specification SpecRetry)
\* ------------------------------------------------------------------------
AllAnswers(S) == \A i \in 1..Len(retry.history) : retry.history[i].status \in S

\* C19: get returns a response only for HTTP 200; a URL that keeps answering
\* with a status in {429, 500, 502, 503, 504} is retried max_retries times and
\* then gives null; a 4xx status other than 429 gets exactly one attempt and
\* gives null; a timeout gives null.
C19_RetryContract ==
    retry.pc = "done" =>
        LET h == retry.history
            last == h[Len(h)]
        IN /\ retry.result = "response" => last.status = 200
           /\ AllAnswers(status_forcelist)
                 => Len(h) = max_retries + 1 /\ retry.result = "null"
           /\ (h[1].status \in 400..499 /\ h[1].status # 429)
                 => Len(h) = 1 /\ retry.result = "null"
           /\ last.kind = "timeout" => retry.result = "null"

\* ------------------------------------------------------------------------
\* Claim on the field-mapping cache (specification SpecParser)
\* ------------------------------------------------------------------------
\* the maps a lookup may see whole: the defaults, or what a refresh read
CompleteFieldMaps == {_DEFAULT_FIELD_MAP} \cup (DbFieldMaps \ {{}})

\* C20: a field lookup that runs beside a refresh of the field-map cache gets a
\* complete field map, the one before or the one after the refresh, together
\* with the token index built from that same map.
C20_LookupSeesMatchingPair ==
    /\ lastLookup # None =>
          /\ lastLookup[1].field_map \in CompleteFieldMaps
          /\ lastLookup[1].token_index = _build_token_index(lastLookup[1].field_map)
    /\ _get_token_index = _build_token_index(_get_field_map)
    /\ _get_field_map \in CompleteFieldMaps

\* a lookup got a map read from the table while the other coroutine, holding
\* the lock, was about to install a different one
C20_Witness ==
    /\ lastLookup # None
    /\ lastLookup[1].field_map \in DbFieldMaps
    /\ \E c \in Coroutines :
          /\ loader[c].pc = "assign"
          /\ loader[c].rows # None
          /\ loader[c].rows[1].field \notin {{}, lastLookup[1].field_map}

\* ------------------------------------------------------------------------
\* Claims on the media of a listing (specification SpecMedia)
\* ------------------------------------------------------------------------
\* the urls of the media_assets rows of listing id, in a sequence of rows
StoredMedia(rows, id) == {rows[i].url : i \in {k \in 1..Len(rows) : rows[k].listing_id = id}}

SeqRange(seq) == {seq[i] : i \in 1..Len(seq)}

\* the rows of listing id, in order
RowsOf(rows, id) == SelectSeq(rows, LAMBDA r : r.listing_id = id)

\* C21: when _persist_listing finds an existing listing for the source_url,
\* every incoming media URL not yet stored for it is inserted as a new
\* media_assets row, URLs already stored are not inserted again, and no stored
\* media_assets row of the listing is deleted.
C21_MediaUpsertOnRescrape ==
    [][PersistUpdates =>
          LET id == persistPc.existing.id
              incoming == SeqRange(persistPc.schema[1].media)
              before == RowsOf(media_assets, id)
              after == RowsOf(media_assets', id)
          IN /\ StoredMedia(media_assets', id) = StoredMedia(media_assets, id) \cup incoming
             /\ Len(after) = Len(before)
                   + Cardinality(incoming \ StoredMedia(media_assets, id))
             /\ SubSeq(after, 1, Len(before)) = before]_vars

\* C22: after any sequence of inserts and rescrapes by _persist_listing, no
\* listing has two media_assets rows with the same url.
C22_MediaUrlUnique ==
    \A i, k \in 1..Len(media_assets) :
        (i # k /\ media_assets[i].listing_id = media_assets[k].listing_id)
            => media_assets[i].url # media_assets[k].url


\* ------------------------------------------------------------------------
\* The listings table as a set of rows: POST /listings and the engine upsert
\* (api/v1/listings.py 349-366, scraper_service.py 262-329, listing_model.py 35)
\* ------------------------------------------------------------------------
Creators == 1..MaxCreators

\* payload.source_url is optional
PayloadUrls == {None} \cup {Some(u) : u \in SourceUrls}

CreatorIdle == [pc |-> "idle", url |-> None, result |-> "none"]

UpsertIdle == [pc |-> "idle", url |-> None, existing |-> 0, result |-> "none"]

\* select(Listing).where(Listing.source_url == u)
RowsWithUrl(u) == {row \in listing_rows : row.source_url = u}

\* a table without the unique index on source_url
UniqueViolationNever(u) == FALSE

\* source_url is declared unique=True: the flush of a second row with the same
\* non-null value raises
UniqueViolation(u) == u # None /\ RowsWithUrl(u) # {}

\* create_listing up to the first flush: the duplicate check
api_create_check(r, u) ==
    /\ creator[r].pc = "idle"
    /\ IF u # None /\ RowsWithUrl(u) # {}
         THEN creator' = [creator EXCEPT ![r] = [pc |-> "idle", url |-> u, result |-> "duplicate"]]
         ELSE creator' = [creator EXCEPT ![r] = [pc |-> "flush", url |-> u, result |-> "none"]]
    /\ UNCHANGED <<listing_rows, nextRowId, upsert>>

\* create_listing from db.add(listing); await db.flush() onward
api_create_flush(r) ==
    /\ creator[r].pc = "flush"
    /\ IF UniqueViolation(creator[r].url)
         THEN /\ creator' = [creator EXCEPT ![r] = [pc |-> "idle", url |-> @.url,
                                                    result |-> "integrity_error"]]
              /\ UNCHANGED <<listing_rows, nextRowId>>
         ELSE /\ nextRowId <= MaxRows
              /\ listing_rows' = listing_rows \cup
                     {[id |-> nextRowId, source_url |-> creator[r].url, origin |-> "api"]}
              /\ nextRowId' = nextRowId + 1
              /\ creator' = [creator EXCEPT ![r] = [pc |-> "idle", url |-> @.url,
                                                    result |-> "created"]]
    /\ UNCHANGED upsert

\* _persist_listing up to the branch on existing
engine_select(u) ==
    /\ upsert.pc = "idle"
    /\ upsert' = [pc |-> "commit", url |-> Some(u),
                  existing |-> IF RowsWithUrl(Some(u)) = {} THEN 0
                               ELSE (CHOOSE row \in RowsWithUrl(Some(u)) : TRUE).id,
                  result |-> "none"]
    /\ UNCHANGED <<listing_rows, nextRowId, creator>>

\* _persist_listing from the branch on existing to db.commit()
engine_commit ==
    /\ upsert.pc = "commit"
    /\ IF upsert.existing # 0
         THEN /\ upsert' = [upsert EXCEPT !.pc = "idle", !.result = "updated"]
              /\ UNCHANGED <<listing_rows, nextRowId>>
         ELSE IF UniqueViolation(upsert.url)
         THEN /\ upsert' = [upsert EXCEPT !.pc = "idle", !.result = "integrity_error"]
              /\ UNCHANGED <<listing_rows, nextRowId>>
         ELSE /\ nextRowId <= MaxRows
              /\ listing_rows' = listing_rows \cup
                     {[id |-> nextRowId, source_url |-> upsert.url, origin |-> "engine"]}
              /\ nextRowId' = nextRowId + 1
              /\ upsert' = [upsert EXCEPT !.pc = "idle", !.result = "inserted"]
    /\ UNCHANGED creator

\* DELETE /listings/{id}
delete_listing_row(id) ==
    /\ \E row \in listing_rows : row.id = id
    /\ listing_rows' = {row \in listing_rows : row.id # id}
    /\ UNCHANGED <<nextRowId, creator, upsert>>

NextRows ==
    \/ \E r \in Creators, u \in PayloadUrls : api_create_check(r, u) /\ UNCHANGED exceptRowVars
    \/ \E r \in Creators : api_create_flush(r) /\ UNCHANGED exceptRowVars
    \/ \E u \in SourceUrls : engine_select(u) /\ UNCHANGED exceptRowVars
    \/ engine_commit /\ UNCHANGED exceptRowVars
    \/ \E id \in 1..MaxRows : delete_listing_row(id) /\ UNCHANGED exceptRowVars

SpecRows == Init /\ [][NextRows]_vars

\* ------------------------------------------------------------------------
\* Claims on the listings table (specification SpecRows)
\* ------------------------------------------------------------------------
\* C23: after any sequence of engine upserts and POST /listings calls no two
\* rows share a non-null source_url, and a POST /listings whose source_url is
\* already stored answers with the duplicate error and adds no row.
C23_SourceUrlUnique ==
    /\ [](\A a, b \in listing_rows :
             (a.source_url # None /\ a.source_url = b.source_url) => a = b)
    /\ [][\A r \in Creators :
             (creator[r].pc = "idle" /\ creator'[r] # creator[r]
                  /\ RowsWithUrl(creator'[r].url) # {} /\ creator'[r].url # None)
                 => (creator'[r].result = "duplicate" /\ listing_rows' = listing_rows)]_vars

\* C23 witness: a POST /listings was refused as a duplicate of a row the engine stored
C23_Witness ==
    \E r \in Creators :
        /\ creator[r].result = "duplicate"
        /\ \E row \in listing_rows : row.source_url = creator[r].url /\ row.origin = "engine"


\* ------------------------------------------------------------------------
\* parse_price (mapper_service.py 132-188); a string is the sequence of its
\* characters
\* ------------------------------------------------------------------------
DigitChars == {"0", "1", "2", "3", "4", "5", "6", "7", "8", "9"}

SetMin(S) == CHOOSE x \in S : \A y \in S : x <= y

SetMax(S) == CHOOSE x \in S : \A y \in S : y <= x

\* the character class of _PRICE_PATTERN = [\d\s.,]+
InPricePattern(c) == c \in DigitChars \cup {" ", ".", ","}

\* _PRICE_PATTERN.search(raw): the first longest run of class characters
_PRICE_PATTERN_search(raw) ==
    LET starts == {i \in 1..Len(raw) : InPricePattern(raw[i])}
    IN IF starts = {} THEN [found |-> FALSE, group |-> <<>>]
       ELSE LET a == SetMin(starts)
                b == SetMax({j \in a..Len(raw) : \A k \in a..j : InPricePattern(raw[k])})
            IN [found |-> TRUE, group |-> SubSeq(raw, a, b)]

\* str.strip()
strip(s) ==
    LET keep == {i \in 1..Len(s) : s[i] # " "}
    IN IF keep = {} THEN <<>> ELSE SubSeq(s, SetMin(keep), SetMax(keep))

\* c in s, for one character c
contains(s, c) == \E i \in 1..Len(s) : s[i] = c

\* sub in s
IsSubstring(sub, s) ==
    \E i \in 0..(Len(s) - Len(sub)) : SubSeq(s, i + 1, i + Len(sub)) = sub

RECURSIVE replace(_, _, _)
\* s.replace(c, by), for one character c
replace(s, c, by) ==
    IF s = <<>> THEN <<>>
    ELSE (IF Head(s) = c THEN by ELSE <<Head(s)>>) \o replace(Tail(s), c, by)

RECURSIVE split(_, _)
\* s.split(c), for one character c
split(s, c) ==
    IF ~contains(s, c) THEN <<s>>
    ELSE LET i == SetMin({k \in 1..Len(s) : s[k] = c})
         IN <<SubSeq(s, 1, i - 1)>> \o split(SubSeq(s, i + 1, Len(s)), c)

Lower(c) ==
    CASE c = "E" -> "e" [] c = "U" -> "u" [] c = "R" -> "r" [] c = "S" -> "s"
      [] c = "D" -> "d" [] OTHER -> c

\* str.lower()
lower(s) == [i \in 1..Len(s) |-> Lower(s[i])]

\* the digits of a coefficient: leading zeros dropped, zero is the empty
\* sequence (a price has more digits than a machine integer holds)
DigitsValue(ds) ==
    LET nonzero == {i \in 1..Len(ds) : ds[i] # "0"}
    IN IF nonzero = {} THEN <<>> ELSE SubSeq(ds, SetMin(nonzero), Len(ds))

\* Decimal(num_str): digits with at most one point, surrounding whitespace
\* dropped; anything else raises (None here)
Decimal(num_str) ==
    LET t == strip(num_str)
        points == {i \in 1..Len(t) : t[i] = "."}
        valid == /\ \A i \in 1..Len(t) : t[i] \in DigitChars \cup {"."}
                 /\ Cardinality(points) <= 1
                 /\ \E i \in 1..Len(t) : t[i] \in DigitChars
    IN IF ~valid THEN None
       ELSE Some([coefficient |-> DigitsValue(replace(t, ".", <<>>)),
                  exponent |-> IF points = {} THEN 0
                               ELSE 0 - (Len(t) - SetMax(points))])

\* _DEFAULT_CURRENCY_MAP, in the order of the dict literal
_DEFAULT_CURRENCY_MAP ==
    << <<<<"€">>, "EUR">>, <<<<"e", "u", "r">>, "EUR">>, <<<<"e", "u", "r", "o">>, "EUR">>,
       <<<<"e", "u", "r", "o", "s">>, "EUR">>, <<<<"$">>, "USD">>, <<<<"u", "s", "d">>, "USD">>,
       <<<<"£">>, "GBP">>, <<<<"g", "b", "p">>, "GBP">>, <<<<"R", "$">>, "BRL">>,
       <<<<"b", "r", "l">>, "BRL">>, <<<<"¥">>, "JPY">>, <<<<"j", "p", "y">>, "JPY">> >>

\* the dot rule without the test on the groups
normalize_num_str_dots_decimal(num_str) ==
    IF contains(num_str, ",") /\ contains(num_str, ".")
      THEN replace(replace(num_str, ".", <<>>), ",", <<".">>)
    ELSE IF contains(num_str, ",")
      THEN LET parts == split(num_str, ",")
           IN IF Len(parts[Len(parts)]) = 2
                THEN replace(num_str, ",", <<".">>)
                ELSE replace(num_str, ",", <<>>)
    ELSE replace(num_str, " ", <<>>)

\* the normalisation of the numeric part, lines 150-171
normalize_num_str(num_str) ==
    IF contains(num_str, ",") /\ contains(num_str, ".")
      THEN replace(replace(num_str, ".", <<>>), ",", <<".">>)
    ELSE IF contains(num_str, ",")
      THEN LET parts == split(num_str, ",")
           IN IF Len(parts[Len(parts)]) = 2
                THEN replace(num_str, ",", <<".">>)
                ELSE replace(num_str, ",", <<>>)
    ELSE IF contains(num_str, ".")
      THEN LET parts == split(num_str, ".")
               joined == IF \A k \in 2..Len(parts) : Len(parts[k]) = 3
                           THEN replace(num_str, ".", <<>>)
                           ELSE num_str
           IN replace(joined, " ", <<>>)
    ELSE replace(num_str, " ", <<>>)

\* the currency loop, lines 180-186
find_currency(raw, currency_map) ==
    LET raw_lower == lower(raw)
        hits == {i \in 1..Len(currency_map) :
                    IsSubstring(currency_map[i][1], raw_lower)
                        \/ IsSubstring(currency_map[i][1], raw)}
    IN IF hits = {} THEN "EUR" ELSE currency_map[SetMin(hits)][2]

NoPrice == [amount |-> None, currency |-> None]

parse_price(raw, currency_map) ==
    IF raw = <<>> THEN NoPrice
    ELSE LET match == _PRICE_PATTERN_search(raw)
         IN IF ~match.found THEN NoPrice
            ELSE LET amount == Decimal(normalize_num_str(strip(match.group)))
                 IN IF amount = None THEN NoPrice
                    ELSE [amount |-> amount, currency |-> Some(find_currency(raw, currency_map))]

\* price strings: text, digit groups joined by separators, text
PricePrefixes == {<<>>, <<"$">>, <<"x", " ">>}

PriceSuffixes == {<<>>, <<" ", "€">>, <<" ", "E", "U", "R">>, <<" ", "£">>}

PriceGroups == {<<"1">>, <<"5", "0">>, <<"2", "5", "0">>, <<"0", "0", "0">>, <<"5", "0", "0">>}

PriceSeps == {<<".">>, <<",">>, <<" ">>}

PriceCases ==
    UNION {[prefix : PricePrefixes, groups : [1..n -> PriceGroups],
            seps : [1..(IF n = 0 THEN 0 ELSE n - 1) -> PriceSeps], suffix : PriceSuffixes]
           : n \in 0..MaxGroups}

RECURSIVE Join(_, _)
Join(groups, seps) ==
    IF groups = <<>> THEN <<>>
    ELSE IF seps = <<>> THEN Head(groups)
    ELSE Head(groups) \o Head(seps) \o Join(Tail(groups), Tail(seps))

Text(c) == c.prefix \o Join(c.groups, c.seps) \o c.suffix

\* _get_currency_map (108-112): the cache when it holds something, else the defaults
_get_currency_map ==
    IF _CURRENCY_MAP_CACHE # <<>> THEN _CURRENCY_MAP_CACHE ELSE _DEFAULT_CURRENCY_MAP

NoCase == [prefix |-> <<>>, groups |-> <<>>, seps |-> <<>>, suffix |-> <<>>]

\* one call is followed: parse_price keeps nothing from one call to the next
parse_price_call(c) ==
    /\ priceCase = NoCase
    /\ priceCase' = c
    /\ priceOut' = parse_price(Text(c), _get_currency_map)

NextPrice ==
    /\ priceCase = NoCase
    /\ \E c \in PriceCases : parse_price_call(c) /\ UNCHANGED exceptPriceVars

SpecPrice == Init /\ [][NextPrice]_vars

\* ------------------------------------------------------------------------
\* Claims on parse_price (specification SpecPrice)
\* ------------------------------------------------------------------------
RECURSIVE Concat(_)
Concat(groups) == IF groups = <<>> THEN <<>> ELSE Head(groups) \o Concat(Tail(groups))

RECURSIVE Reduced(_)
\* a decimal without trailing zeros in its fraction
Reduced(d) ==
    IF d.exponent < 0 /\ (d.coefficient = <<>> \/ d.coefficient[Len(d.coefficient)] = "0")
      THEN Reduced([coefficient |-> SubSeq(d.coefficient, 1, Len(d.coefficient) - 1),
                    exponent |-> d.exponent + 1])
      ELSE d

Number(coefficient, exponent) == [coefficient |-> coefficient, exponent |-> exponent]

Returned(c, coefficient, exponent, currency) ==
    priceCase = c =>
        /\ priceOut.amount # None
        /\ Reduced(priceOut.amount[1]) = Reduced(Number(coefficient, exponent))
        /\ priceOut.currency = Some(currency)

SepsOf(c) == {c.seps[i] : i \in 1..Len(c.seps)}

HasDigits(c) == c.groups # <<>>

\* what the separator rules give for the digit groups of c
ByTheRules(c) ==
    LET n == Len(c.groups)
        last == c.groups[n]
        whole == DigitsValue(Concat(c.groups))
    IN IF SepsOf(c) = {<<".">>, <<",">>}
         THEN LET i == CHOOSE k \in 1..Len(c.seps) : c.seps[k] = <<",">>
                  fraction == Concat(SubSeq(c.groups, i + 1, n))
              IN Number(whole, 0 - Len(fraction))
       ELSE IF SepsOf(c) = {<<",">>} /\ Len(last) = 2
         THEN Number(whole, 0 - 2)
       ELSE IF SepsOf(c) = {<<".">>} /\ \E k \in 2..n : Len(c.groups[k]) # 3
         THEN Number(whole, 0 - Len(last))
       ELSE Number(whole, 0)

\* the strings the rules speak of: one kind of separator, or one point and
\* one comma; a decimal mark stands once
RulesApply(c) ==
    /\ HasDigits(c)
    /\ \/ SepsOf(c) \in {{}, {<<" ">>}}
       \/ SepsOf(c) = {<<".">>, <<",">>}
            /\ Cardinality({k \in 1..Len(c.seps) : c.seps[k] = <<",">>}) = 1
       \/ SepsOf(c) = {<<",">>} /\ (Len(c.groups[Len(c.groups)]) = 2 => Len(c.seps) = 1)
       \/ SepsOf(c) = {<<".">>}
            /\ ((\E k \in 2..Len(c.groups) : Len(c.groups[k]) # 3) => Len(c.seps) = 1)

NoSymbol(c) == c.prefix \in {<<>>, <<"x", " ">>} /\ c.suffix = <<>>

\* C24: parse_price gives (250000, EUR), (1250000, EUR), (250000.50, EUR) and
\* (500000, USD) for "250 000 €", "1.250.000 €", "250.000,50 €" and "$500,000";
\* with a point and a comma the comma is the decimal mark, a lone comma is
\* decimal only before exactly 2 digits, a lone point separates thousands only
\* when every later group has 3 digits; the currency is EUR when no known
\* symbol occurs; a string without digits gives (null, null).
C24_ParsePrice ==
    /\ Returned([prefix |-> <<>>, groups |-> <<<<"2", "5", "0">>, <<"0", "0", "0">>>>,
                 seps |-> <<<<" ">>>>, suffix |-> <<" ", "€">>], <<"2", "5", "0", "0", "0", "0">>, 0, "EUR")
    /\ Returned([prefix |-> <<>>, groups |-> <<<<"1">>, <<"2", "5", "0">>, <<"0", "0", "0">>>>,
                 seps |-> <<<<".">>, <<".">>>>, suffix |-> <<" ", "€">>], <<"1", "2", "5", "0", "0", "0", "0">>, 0, "EUR")
    /\ Returned([prefix |-> <<>>, groups |-> <<<<"2", "5", "0">>, <<"0", "0", "0">>, <<"5", "0">>>>,
                 seps |-> <<<<".">>, <<",">>>>, suffix |-> <<" ", "€">>],
               <<"2", "5", "0", "0", "0", "0", "5", "0">>, 0 - 2, "EUR")
    /\ Returned([prefix |-> <<"$">>, groups |-> <<<<"5", "0", "0">>, <<"0", "0", "0">>>>,
                 seps |-> <<<<",">>>>, suffix |-> <<>>], <<"5", "0", "0", "0", "0", "0">>, 0, "USD")
    /\ RulesApply(priceCase) =>
           /\ priceOut.amount # None
           /\ Reduced(priceOut.amount[1]) = Reduced(ByTheRules(priceCase))
    /\ (priceOut.amount # None /\ NoSymbol(priceCase)) => priceOut.currency = Some("EUR")
    /\ ~HasDigits(priceCase) => priceOut = NoPrice

\* C24 witness: "1.250.000 €" was parsed, to an amount in euros
C24_Witness ==
    /\ priceCase = [prefix |-> <<>>, groups |-> <<<<"1">>, <<"2", "5", "0">>, <<"0", "0", "0">>>>,
                    seps |-> <<<<".">>, <<".">>>>, suffix |-> <<" ", "€">>]
    /\ priceOut.currency = Some("EUR")


\* ------------------------------------------------------------------------
\* The sites API on site_configs rows (api/v1/sites.py 75-168,
\* site_config_model.py 13-34)
\* ------------------------------------------------------------------------
SiteKeys == {"s1", "s2"}

SiteNames == {"Site", "Updated Site"}

\* no row with this key
NoSite == None

\* SiteConfig(**payload.model_dump()) at its first flush
NewSite(name, now) ==
    Some([name |-> name, is_active |-> TRUE, created_at |-> now, updated_at |-> now])

\* the UPDATE a flush emits for a changed row: updated_at has onupdate=now
Flushed(old, new, now) ==
    IF new = old THEN old ELSE Some([new[1] EXCEPT !.updated_at = now])

SiteAnswer(op, key, permanent, result, data) ==
    [op |-> op, key |-> key, permanent |-> permanent, result |-> result, data |-> data]

\* delete_site that removes the row whatever permanent is
RemovesRowAlways(permanent) == TRUE

\* the branch of delete_site on permanent
RemovesRow(permanent) == permanent

\* POST /sites
create_site_row(key, name) ==
    /\ siteNow < MaxSiteNow
    /\ siteNow' = siteNow + 1
    /\ LET existing_site == site_configs[key]
       IN IF existing_site # NoSite /\ existing_site[1].is_active
            THEN /\ siteCall' = SiteAnswer("create_site", key, FALSE, "duplicate", None)
                 /\ UNCHANGED site_configs
          ELSE IF existing_site # NoSite
            THEN LET row == Flushed(existing_site,
                                    Some([existing_site[1] EXCEPT !.name = name,
                                                                  !.is_active = TRUE]),
                                    siteNow')
                 IN /\ site_configs' = [site_configs EXCEPT ![key] = row]
                    /\ siteCall' = SiteAnswer("create_site", key, FALSE, "ok", row)
          ELSE /\ site_configs' = [site_configs EXCEPT ![key] = NewSite(name, siteNow')]
               /\ siteCall' = SiteAnswer("create_site", key, FALSE, "ok", NewSite(name, siteNow'))

\* PATCH /sites/{key}
update_site_row(key, name) ==
    /\ siteNow < MaxSiteNow
    /\ siteNow' = siteNow + 1
    /\ LET found == site_configs[key]
       IN IF found = NoSite
            THEN /\ siteCall' = SiteAnswer("update_site", key, FALSE, "not_found", None)
                 /\ UNCHANGED site_configs
            ELSE LET row == Flushed(found, Some([found[1] EXCEPT !.name = name]), siteNow')
                 IN /\ site_configs' = [site_configs EXCEPT ![key] = row]
                    /\ siteCall' = SiteAnswer("update_site", key, FALSE, "ok", row)

\* POST /sites/{key}/reactivate
reactivate_site_row(key) ==
    /\ siteNow < MaxSiteNow
    /\ siteNow' = siteNow + 1
    /\ LET found == site_configs[key]
       IN IF found = NoSite
            THEN /\ siteCall' = SiteAnswer("reactivate_site", key, FALSE, "not_found", None)
                 /\ UNCHANGED site_configs
          ELSE IF found[1].is_active
            THEN /\ siteCall' = SiteAnswer("reactivate_site", key, FALSE, "duplicate", None)
                 /\ UNCHANGED site_configs
          ELSE LET row == Flushed(found, Some([found[1] EXCEPT !.is_active = TRUE]), siteNow')
               IN /\ site_configs' = [site_configs EXCEPT ![key] = row]
                  /\ siteCall' = SiteAnswer("reactivate_site", key, FALSE, "ok", row)

\* DELETE /sites/{key}?permanent=
delete_site_row(key, permanent) ==
    /\ siteNow < MaxSiteNow
    /\ siteNow' = siteNow + 1
    /\ LET found == site_configs[key]
       IN IF found = NoSite
            THEN /\ siteCall' = SiteAnswer("delete_site", key, permanent, "not_found", None)
                 /\ UNCHANGED site_configs
          ELSE IF RemovesRow(permanent)
            THEN /\ site_configs' = [site_configs EXCEPT ![key] = NoSite]
                 /\ siteCall' = SiteAnswer("delete_site", key, permanent, "ok", None)
          ELSE IF ~found[1].is_active
            THEN /\ siteCall' = SiteAnswer("delete_site", key, permanent, "not_found", None)
                 /\ UNCHANGED site_configs
          ELSE /\ site_configs' =
                     [site_configs EXCEPT
                          ![key] = Flushed(found, Some([found[1] EXCEPT !.is_active = FALSE]),
                                           siteNow')]
               /\ siteCall' = SiteAnswer("delete_site", key, permanent, "ok", None)

\* GET /sites/{key}
get_site_row(key) ==
    /\ siteNow < MaxSiteNow
    /\ siteNow' = siteNow + 1
    /\ siteCall' = IF site_configs[key] = NoSite
                     THEN SiteAnswer("get_site", key, FALSE, "not_found", None)
                     ELSE SiteAnswer("get_site", key, FALSE, "ok", site_configs[key])
    /\ UNCHANGED site_configs

NextSites ==
    \/ \E key \in SiteKeys, name \in SiteNames :
           create_site_row(key, name) /\ UNCHANGED exceptSiteVars
    \/ \E key \in SiteKeys, name \in SiteNames : update_site_row(key, name) /\ UNCHANGED exceptSiteVars
    \/ \E key \in SiteKeys : reactivate_site_row(key) /\ UNCHANGED exceptSiteVars
    \/ \E key \in SiteKeys, permanent \in BOOLEAN :
           delete_site_row(key, permanent) /\ UNCHANGED exceptSiteVars
    \/ \E key \in SiteKeys : get_site_row(key) /\ UNCHANGED exceptSiteVars

SpecSites == Init /\ [][NextSites]_vars

\* ------------------------------------------------------------------------
\* Claims on the sites API (specification SpecSites)
\* ------------------------------------------------------------------------
SoftDeleted(key) ==
    /\ siteNow' # siteNow
    /\ siteCall' = SiteAnswer("delete_site", key, FALSE, "ok", None)

RowRemoved(key) == site_configs[key] # NoSite /\ site_configs'[key] = NoSite

\* C25 as stated: delete_site without permanent=true only clears is_active,
\* the record stays retrievable by key with is_active false and every other
\* field unchanged; only permanent=true removes the record.
C25_SoftDeleteClearsOnlyIsActive ==
    [][\A key \in SiteKeys :
          /\ SoftDeleted(key) =>
                 /\ site_configs[key] # NoSite
                 /\ site_configs'[key] = Some([site_configs[key][1] EXCEPT !.is_active = FALSE])
          /\ RowRemoved(key) =>
                 siteCall' = SiteAnswer("delete_site", key, TRUE, "ok", None)]_vars

\* C25 amended: as above, except that the soft delete also sets updated_at to
\* the time of the request.
C25_SoftDeleteKeepsRecord ==
    [][\A key \in SiteKeys :
          /\ SoftDeleted(key) =>
                 /\ site_configs[key] # NoSite
                 /\ site_configs'[key] = Some([site_configs[key][1] EXCEPT !.is_active = FALSE,
                                                                          !.updated_at = siteNow'])
                 /\ \A other \in SiteKeys \ {key} : site_configs'[other] = site_configs[other]
          /\ RowRemoved(key) =>
                 siteCall' = SiteAnswer("delete_site", key, TRUE, "ok", None)]_vars

\* C25 witness: a site was soft-deleted and then read back by key, inactive
C25_Witness ==
    /\ siteCall.op = "get_site"
    /\ siteCall.result = "ok"
    /\ ~siteCall.data[1].is_active
    /\ siteCall.data[1].updated_at > siteCall.data[1].created_at


\* ------------------------------------------------------------------------
\* The logs and urls columns of a job (scrape_job.py 38-47, 58-75, 98-124;
\* scraper_service.py 232-249) beside the crawl loop of one job
\* ------------------------------------------------------------------------
\* default=dict: the column of a row created without a value for it
EmptyDict == <<>>

\* mark_running, lines 66-75
FreshLogs == [errors |-> <<>>, warnings |-> <<>>, info |-> <<>>]

FreshUrls == [found |-> <<>>, scraped |-> <<>>, failed |-> <<>>]

InSeq(x, seq) == \E i \in 1..Len(seq) : seq[i] = x

\* dict d with d[key] = value
SetItem(d, key, value) == [k \in DOMAIN d \cup {key} |-> IF k = key THEN value ELSE d[k]]

\* ScrapeJob.add_log on the loaded dict: self.logs is mutated in place, the
\* attribute is assigned only when it was None
add_log(l, level, entry) ==
    [value |-> IF level \in DOMAIN l THEN SetItem(l, level, Append(l[level], entry))
               ELSE SetItem(l, level, <<entry>>),
     assigned |-> FALSE]

\* ScrapeJob.add_url on the loaded dict, in place as well
add_url(u, st, url) ==
    [value |-> IF st \in DOMAIN u
                 THEN (IF InSeq(url, u[st]) THEN u ELSE SetItem(u, st, Append(u[st], url)))
                 ELSE SetItem(u, st, <<url>>),
     assigned |-> FALSE]

\* db.commit() on a row whose column has the plain JSON type: the UPDATE
\* carries the column only when the attribute was assigned
committed_json(stored, call) == IF call.assigned THEN call.value ELSE stored

\* the links of a search page, as (page, position) pairs
LinkUrl(page_num, k) == <<page_num, k>>

PageLinks(page_num, n) == [k \in 1..n |-> LinkUrl(page_num, n - k + 1)]

RECURSIVE track_urls(_, _, _)
\* _track_url once per link, each call in a session of its own
track_urls(stored, st, links) ==
    IF links = <<>> THEN stored
    ELSE track_urls(committed_json(stored, add_url(stored, st, Head(links))), st, Tail(links))

\* _track_url for each of links, then _add_job_log for each of entries
job_writes(j, st, links, entries) ==
    IF RowExists(j)
      THEN /\ urls' = [urls EXCEPT ![j] = track_urls(@, st, links)]
           /\ tracked' = [tracked EXCEPT ![j] = @ \o [i \in 1..Len(links) |-> <<st, links[i]>>]]
           /\ logs' = [logs EXCEPT ![j] =
                  IF entries = <<>> THEN @ ELSE committed_json(@, add_log(@, entries[1][1], entries[1]))]
           /\ logged' = [logged EXCEPT ![j] = @ \o entries]
      ELSE UNCHANGED <<logs, urls, tracked, logged>>

\* create_job's commit with the columns the new row gets
log_create_job_commit(r) ==
    /\ create_job_commit(r, MaxControlJobs)
    /\ logs' = [logs EXCEPT ![NextJobId] = EmptyDict]
    /\ urls' = [urls EXCEPT ![NextJobId] = EmptyDict]
    /\ UNCHANGED <<tracked, logged, lastFetch>>

\* run_scrape_job's claim: mark_running assigns fresh logs and urls
log_run_scrape_job_claim(j) ==
    /\ run_scrape_job_claim(j)
    /\ IF RowExists(j) /\ site = "active"
         THEN /\ logs' = [logs EXCEPT ![j] = FreshLogs]
              /\ urls' = [urls EXCEPT ![j] = FreshUrls]
         ELSE UNCHANGED <<logs, urls>>
    /\ UNCHANGED <<tracked, logged, lastFetch>>

\* lines 143-160 with _add_job_log (146) and _track_url (158-160)
log_fetch_page(j) ==
    \E resp \in {"null", "html", "raise"}, n \in 0..MaxLinks, nxt \in BOOLEAN :
        /\ fetch_page_resp(j, resp, n, nxt)
        /\ CASE resp = "null" ->
                  job_writes(j, "found", <<>>, <<<<"error", <<worker[j].page_num, 0>>>>>>)
             [] resp = "html" ->
                  job_writes(j, "found", PageLinks(worker[j].page_num, n), <<>>)
             [] resp = "raise" -> UNCHANGED <<logs, urls, tracked, logged>>
        /\ lastFetch' = [kind |-> "page", resp |-> resp,
                         errors_before |-> worker[j].errors,
                         errors_after |-> worker[j].errors + (IF resp = "null" THEN 1 ELSE 0)]

\* lines 168-205 with _track_url and _add_job_log (172-173, 190, 203-204)
log_fetch_detail(j) ==
    \E resp \in {"null", "html"} :
        LET link == LinkUrl(worker[j].page_num, worker[j].links)
            level == IF resp = "null" THEN "warning" ELSE "error"
        IN /\ fetch_detail_resp(j, resp)
           /\ IF resp = "null" \/ normalize_raises(parse_listing_page_call)
                THEN job_writes(j, "failed", <<link>>, <<<<level, link>>>>)
                ELSE job_writes(j, "scraped", <<link>>, <<>>)
           /\ lastFetch' = [kind |-> "detail", resp |-> resp,
                            errors_before |-> worker[j].errors,
                            errors_after |-> detail_counters(worker[j], resp).errors]

NextLog ==
    \/ \E r \in Reqs : create_job_check_running(r) /\ UNCHANGED <<exceptLogVars, logVars>>
    \/ \E r \in Reqs : create_job_check_site(r) /\ UNCHANGED <<exceptLogVars, logVars>>
    \/ \E r \in Reqs : log_create_job_commit(r) /\ UNCHANGED exceptLogVars
    \/ \E j \in ControlJobs : cancel_job_read(j) /\ UNCHANGED <<exceptLogVars, logVars>>
    \/ \E j \in ControlJobs : cancel_job_commit(j) /\ UNCHANGED <<exceptLogVars, logVars>>
    \/ \E j \in ControlJobs : delete_job_read(j) /\ UNCHANGED <<exceptLogVars, logVars>>
    \/ \E j \in ControlJobs : delete_job_commit(j) /\ UNCHANGED <<exceptLogVars, logVars>>
    \/ \E j \in ControlJobs : run_scrape_job_load(j) /\ UNCHANGED <<exceptLogVars, logVars>>
    \/ \E j \in ControlJobs : log_run_scrape_job_claim(j) /\ UNCHANGED exceptLogVars
    \/ \E j \in ControlJobs : page_checkpoint(j) /\ UNCHANGED <<exceptLogVars, logVars>>
    \/ \E j \in ControlJobs : log_fetch_page(j) /\ UNCHANGED exceptLogVars
    \/ \E j \in ControlJobs : link_checkpoint(j) /\ UNCHANGED <<exceptLogVars, logVars>>
    \/ \E j \in ControlJobs : log_fetch_detail(j) /\ UNCHANGED exceptLogVars
    \/ \E j \in ControlJobs : complete_job(j) /\ UNCHANGED <<exceptLogVars, logVars>>
    \/ \E j \in ControlJobs : fail_job(j) /\ UNCHANGED <<exceptLogVars, logVars>>

SpecLog == Init /\ [][NextLog]_vars

\* ------------------------------------------------------------------------
\* Claims on the job record during and after a crawl (specification SpecLog)
\* ------------------------------------------------------------------------
\* C26: once a job's status is terminal its record no longer changes: no later
\* write modifies status, progress, logs or urls (the record may be deleted).
C26_TerminalRecordFrozen ==
    [][\A j \in ControlJobs :
          (status[j] \in TerminalStatuses /\ status'[j] # "deleted")
              => /\ status'[j] = status[j]
                 /\ progress'[j] = progress[j]
                 /\ logs'[j] = logs[j]
                 /\ urls'[j] = urls[j]]_vars

LogEntries(l) == UNION {{l[k][i] : i \in 1..Len(l[k])} : k \in DOMAIN l}

LogCount(l) == Cardinality(UNION {{<<k, i>> : i \in 1..Len(l[k])} : k \in DOMAIN l})

\* C27: a detail fetch that returns null, or an exception while a listing is
\* parsed, normalized or persisted, adds an entry to the job log, adds one to
\* the errors counter, leaves the job's status alone and leaves the worker in
\* the crawl (it does not go to _fail_job).
C27_PerUrlFailure ==
    [][\A j \in ControlJobs :
          (/\ worker[j].pc = "fetch_detail"
           /\ worker'[j].pc # "fetch_detail"
           /\ RowExists(j)
           /\ lastFetch'.resp = "null" \/ normalize_raises(parse_listing_page_call))
              => /\ lastFetch'.errors_after = lastFetch'.errors_before + 1
                 /\ LogCount(logs'[j]) = LogCount(logs[j]) + 1
                 /\ status'[j] = status[j]
                 /\ worker'[j].pc # "fail"]_vars

RECURSIVE FirstSeen(_, _)
\* the urls tracked under st, without repeats, in the order of their first call
FirstSeen(calls, st) ==
    IF calls = <<>> THEN <<>>
    ELSE LET before == FirstSeen(SubSeq(calls, 1, Len(calls) - 1), st)
             last == calls[Len(calls)]
         IN IF last[1] = st /\ ~InSeq(last[2], before) THEN Append(before, last[2]) ELSE before

\* C28: every URL the engine tracked is in the committed urls[status] list,
\* once and in first-seen order, and every log entry it added is in the
\* committed logs.
C28_TrackedAndLoggedCommitted ==
    \A j \in ControlJobs :
        (RowExists(j) /\ worker[j].pc \notin {"none", "scheduled", "loaded"})
            => /\ \A st \in {"found", "scraped", "failed"} :
                      FirstSeen(tracked[j], st) # <<>>
                          => (st \in DOMAIN urls[j] /\ urls[j][st] = FirstSeen(tracked[j], st))
               /\ \A i \in 1..Len(logged[j]) : logged[j][i] \in LogEntries(logs[j])


\* ------------------------------------------------------------------------
\* The page URLs of one crawl (scraper_service.py 129-212, parser_service.py
\* 301-317, site_config_model.py 23-24)
\* ------------------------------------------------------------------------
PaginationTypes == {"html_next", "incremental_path", "query_param"}

PaginationParams == {None, Some("page")}

\* URLs: the job's start_url, the href of a next-page link, start_url/{n},
\* start_url with {param}={n} appended
StartUrl == [kind |-> "start", n |-> 0, param |-> None]

Href(n) == [kind |-> "href", n |-> n, param |-> None]

PathUrl(n) == [kind |-> "path", n |-> n, param |-> None]

QueryUrl(param, n) == [kind |-> "query", n |-> n, param |-> param]

PagerIdle ==
    [pc |-> "idle", pagination_type |-> "html_next", pagination_param |-> None,
     next_page_selector |-> FALSE, max_pages |-> 1, page_num |-> 0,
     current_url |-> StartUrl, next_link |-> None, next_url |-> None]

\* parse_next_page: None without a next_page_selector, else the href of the
\* element it selects, None when there is none
parse_next_page(next_link, next_page_selector) ==
    IF ~next_page_selector THEN None ELSE next_link

\* run_scrape_job loads the site and enters the loop: lines 129-135
start_pages(ptype, param, selector, mp) ==
    /\ pager.pc \in {"idle", "done"}
    /\ pager' = [PagerIdle EXCEPT !.pc = "page", !.pagination_type = ptype,
                                  !.pagination_param = param,
                                  !.next_page_selector = selector, !.max_pages = mp]

\* lines 207-212 after a page whose html holds next_link (or no such link),
\* then the next round of range(max_pages)
next_page(next_link) ==
    /\ pager.pc = "page"
    /\ LET next_url == parse_next_page(next_link, pager.next_page_selector)
       IN pager' = IF next_url = None
                     THEN [pager EXCEPT !.pc = "done", !.next_link = next_link,
                                        !.next_url = next_url]
                   ELSE IF pager.page_num + 1 < pager.max_pages
                     THEN [pager EXCEPT !.page_num = @ + 1, !.current_url = next_url[1],
                                        !.next_link = next_link, !.next_url = next_url]
                   ELSE [pager EXCEPT !.pc = "done", !.current_url = next_url[1],
                                      !.next_link = next_link, !.next_url = next_url]

NextPages ==
    \/ \E ptype \in PaginationTypes, param \in PaginationParams, selector \in BOOLEAN,
          mp \in 1..MaxCrawlPages :
           start_pages(ptype, param, selector, mp) /\ UNCHANGED exceptPagerVars
    \/ \E next_link \in {None, Some(Href(pager.page_num + 2))} :
           next_page(next_link) /\ UNCHANGED exceptPagerVars

SpecPages == Init /\ [][NextPages]_vars

\* ------------------------------------------------------------------------
\* Claims on the page URLs (specification SpecPages)
\* ------------------------------------------------------------------------
\* C29: after search page number page the next page URL follows the site's
\* pagination_type: html_next takes the link next_page_selector selects and
\* stops the crawl when there is none; incremental_path gives
\* start_url/{page+1}; query_param gives start_url with
\* {pagination_param}={page+1} appended.
C29_NextPageByPaginationType ==
    [][(pager.pc = "page" /\ pager' # pager) =>
          LET page == pager.page_num + 1
          IN CASE pager.pagination_type = "html_next" ->
                    /\ pager'.next_url =
                           (IF pager.next_page_selector THEN pager'.next_link ELSE None)
                    /\ pager'.next_url = None => pager'.pc = "done"
               [] pager.pagination_type = "incremental_path" ->
                    pager'.next_url = Some(PathUrl(page + 1))
               [] pager.pagination_type = "query_param" ->
                    pager'.next_url = Some(QueryUrl(pager.pagination_param, page + 1))]_vars


\* ------------------------------------------------------------------------
\* The currency map cache (mapper_service.py 41-128) beside the field map
\* cache of the parser
\* ------------------------------------------------------------------------
\* currency rows of the CharacterMapping table with their lower-case variants
\* (lines 86-92), the empty table included
DbCurrencyMaps == { <<>>, << <<<<"€">>, "EUR">>, <<<<"$">>, "USD">> >> }

CurrencyLoaderIdle == [pc |-> "idle", now |-> 0]

\* lines 66-72
CurrencyCacheFresh(now) ==
    /\ mapper_CACHE_TIMESTAMP # None
    /\ _CURRENCY_MAP_CACHE # <<>>
    /\ now - mapper_CACHE_TIMESTAMP[1] < _CACHE_TTL_SECONDS

\* _load_currency_map up to the SELECT: lines 64-78
currency_load_check ==
    /\ currencyLoader.pc \in {"idle", "done"}
    /\ currencyLoader' = [pc |-> IF CurrencyCacheFresh(utcnow) THEN "done" ELSE "query",
                          now |-> utcnow]
    /\ UNCHANGED <<_CURRENCY_MAP_CACHE, mapper_CACHE_TIMESTAMP>>

\* lines 79-105: the SELECT is answered with rows, or raises (None)
currency_load_answer(rows) ==
    /\ currencyLoader.pc = "query"
    /\ currencyLoader' = [currencyLoader EXCEPT !.pc = "done"]
    /\ IF rows # None /\ rows[1] # <<>>
         THEN /\ _CURRENCY_MAP_CACHE' = rows[1]
              /\ mapper_CACHE_TIMESTAMP' = Some(currencyLoader.now)
         ELSE UNCHANGED <<_CURRENCY_MAP_CACHE, mapper_CACHE_TIMESTAMP>>

\* invalidate_mapper_cache (115-120)
invalidate_mapper_cache ==
    /\ _CURRENCY_MAP_CACHE' = <<>>
    /\ mapper_CACHE_TIMESTAMP' = None
    /\ UNCHANGED currencyLoader

\* what a step leaves in loadFailed
NoteFailed(cache, now) == loadFailed' = [loadFailed EXCEPT ![cache] = Some(now)]

NoteInvalidated(cache) == loadFailed' = [loadFailed EXCEPT ![cache] = None]

FieldCacheVars ==
    <<_FIELD_MAP_CACHE, _FEATURE_MAP_CACHE, _FIELD_TOKEN_INDEX, _CACHE_TIMESTAMP>>

\* the coroutine whose loads of the field map are followed
CacheCoroutines == {1}

NextCaches ==
    \/ \E c \in CacheCoroutines : load_check(c)
          /\ UNCHANGED <<exceptMapperVars, mapperVars>>
    \/ \E c \in CacheCoroutines : load_acquire(c)
          /\ UNCHANGED <<exceptMapperVars, mapperVars>>
    \/ \E c \in CacheCoroutines : load_query(c)
          /\ UNCHANGED <<exceptMapperVars, mapperVars>>
    \/ \E c \in CacheCoroutines : load_assign(c)
          /\ (IF loader[c].rows = None THEN NoteFailed("field", loader[c].now)
                                       ELSE UNCHANGED loadFailed)
          /\ UNCHANGED <<exceptMapperVars, _CURRENCY_MAP_CACHE, mapper_CACHE_TIMESTAMP,
                         currencyLoader>>
    \/ \E c \in CacheCoroutines : load_close(c)
          /\ (IF FieldCacheVars' # FieldCacheVars THEN NoteFailed("field", loader[c].now)
                                                  ELSE UNCHANGED loadFailed)
          /\ UNCHANGED <<exceptMapperVars, _CURRENCY_MAP_CACHE, mapper_CACHE_TIMESTAMP,
                         currencyLoader>>
    \/ invalidate_parser_cache /\ NoteInvalidated("field")
          /\ UNCHANGED <<exceptMapperVars, _CURRENCY_MAP_CACHE, mapper_CACHE_TIMESTAMP,
                         currencyLoader>>
    \/ update_field_mappings /\ UNCHANGED <<exceptMapperVars, mapperVars>>
    \/ utcnow_advance /\ UNCHANGED <<exceptMapperVars, mapperVars>>
    \/ currency_load_check /\ UNCHANGED <<exceptMapperVars, parserVars, loadFailed>>
    \/ \E rows \in {None} \cup {Some(d) : d \in DbCurrencyMaps} :
           /\ currency_load_answer(rows)
           /\ (IF rows = None THEN NoteFailed("currency", currencyLoader.now)
                              ELSE UNCHANGED loadFailed)
           /\ UNCHANGED <<exceptMapperVars, parserVars>>
    \/ invalidate_mapper_cache /\ NoteInvalidated("currency")
          /\ UNCHANGED <<exceptMapperVars, parserVars>>

SpecCaches == Init /\ [][NextCaches]_vars

\* ------------------------------------------------------------------------
\* Claims on the two caches (specification SpecCaches)
\* ------------------------------------------------------------------------
JustFailed(cache) == loadFailed'[cache] # None /\ loadFailed'[cache] # loadFailed[cache]

WithinTtlOfFailure(cache) ==
    loadFailed[cache] # None /\ utcnow - loadFailed[cache][1] < _CACHE_TTL_SECONDS

\* C30: for the field map cache and for the currency map cache, a DB load
\* that fails fills the cache with the built-in defaults and sets the cache
\* timestamp, and no call within the following TTL attempts another DB load.
C30_FailedLoadFillsDefaults ==
    [][/\ JustFailed("field") =>
              /\ _FIELD_MAP_CACHE' = _DEFAULT_FIELD_MAP
              /\ _FEATURE_MAP_CACHE' = _DEFAULT_FEATURE_MAP
              /\ _CACHE_TIMESTAMP' = loadFailed'.field
       /\ WithinTtlOfFailure("field") =>
              \A c \in CacheCoroutines : loader'[c].pc = "query" => loader[c].pc = "query"
       /\ JustFailed("currency") =>
              /\ _CURRENCY_MAP_CACHE' = _DEFAULT_CURRENCY_MAP
              /\ mapper_CACHE_TIMESTAMP' = loadFailed'.currency
       /\ WithinTtlOfFailure("currency") =>
              (currencyLoader'.pc = "query" => currencyLoader.pc = "query")]_vars


\* ------------------------------------------------------------------------
\* Concurrent calls of _load_field_mappings (parser_service.py 173-236), with
\* the history of the loads
\* ------------------------------------------------------------------------
\* the callers that wait for the lock (line 190) after a first check that
\* found the cache stale
LockWaiters == {c \in Coroutines : loader[c].pc = "lock"}

\* coroutine c leaves the critical section in this step
Releases(c) == _cache_lock = c /\ _cache_lock' = 0

\* the load of c that ends in this step ran without exception: the rows were
\* read and the except branch (231-236) was not entered
CompletesWithoutError(c) ==
    /\ Releases(c)
    /\ loader[c].pc = "close"
    /\ FieldCacheVars' = FieldCacheVars

\* what a step of coroutine c leaves in loadHist
NoteLoad(c) ==
    loadHist' =
        [waited |-> IF Releases(c) THEN (loadHist.waited \cup LockWaiters) \ {c}
                    ELSE loadHist.waited \ {c},
         loaded |-> IF CompletesWithoutError(c) THEN Some(loader[c].now)
                    ELSE IF Releases(c) THEN None
                    ELSE loadHist.loaded]

NextLoaders ==
    \/ \E c \in Coroutines : load_check(c) /\ NoteLoad(c) /\ UNCHANGED exceptLoadHistVars
    \/ \E c \in Coroutines : load_acquire(c) /\ NoteLoad(c) /\ UNCHANGED exceptLoadHistVars
    \/ \E c \in Coroutines : load_query(c) /\ UNCHANGED <<exceptLoadHistVars, loadHist>>
    \/ \E c \in Coroutines : load_assign(c) /\ NoteLoad(c) /\ UNCHANGED exceptLoadHistVars
    \/ \E c \in Coroutines : load_close(c) /\ NoteLoad(c) /\ UNCHANGED exceptLoadHistVars
    \/ invalidate_parser_cache /\ loadHist' = [waited |-> {}, loaded |-> None]
          /\ UNCHANGED exceptLoadHistVars
    \/ update_field_mappings /\ UNCHANGED <<exceptLoadHistVars, loadHist>>
    \/ utcnow_advance /\ UNCHANGED <<exceptLoadHistVars, loadHist>>

SpecLoaders == Init /\ [][NextLoaders]_vars

\* ------------------------------------------------------------------------
\* Claims on concurrent and repeated loads (specification SpecLoaders)
\* ------------------------------------------------------------------------
\* a load succeeded, the cache was not invalidated since, and the TTL counted
\* from that load has not run out
WithinTtlOfLoad ==
    /\ loadHist.loaded # None
    /\ utcnow - loadHist.loaded[1] < _CACHE_TTL_SECONDS

\* coroutine c passes the second check (192-197) in this step
SecondCheck(c) == loader[c].pc = "lock" /\ loader'[c].pc # "lock"

\* coroutine c makes the first check (181-188) in this step
FirstCheck(c) == loader[c].pc \in {"idle", "done"} /\ loader'[c].pc \in {"lock", "done"}

\* C31: when several coroutines call _load_field_mappings together on a
\* missing or expired cache, one of them loads from the DB; every other one,
\* once it holds the lock, finds the cache fresh in the second check and
\* returns without a load.
C31_OneLoadPerRefresh ==
    [][\A c \in loadHist.waited :
          (WithinTtlOfLoad /\ SecondCheck(c)) => loader'[c].pc = "done"]_vars

\* C39: after a load from the DB that ran without error, every call of
\* _load_field_mappings within the TTL returns without another DB load, also
\* when the DB held no active field mapping.
C39_NoReloadWithinTtl ==
    [][\A c \in Coroutines :
          (WithinTtlOfLoad /\ FirstCheck(c) /\ loader' # loader) => loader'[c].pc = "done"]_vars


\* ------------------------------------------------------------------------
\* Claims on the polls of the progress stream (specification SpecSSE)
\* ------------------------------------------------------------------------
\* the events this step appends to the stream
NewEvents == SubSeq(sse'.events, Len(sse.events) + 1, Len(sse'.events))

\* this step is a round of the polling loop that found the row
PollFound ==
    /\ sse.pc = "polling"
    /\ sse' # sse
    /\ ~sse'.disconnected
    /\ RowExists(SseJob)

\* C33: every poll of the stream reads the latest committed status and
\* progress of the job, though one session serves the whole stream: what a
\* poll emits and remembers is the row as last committed before the poll.
C33_PollReadsCommitted ==
    [][PollFound =>
          /\ sse'.last_status = Some(status[SseJob])
          /\ sse'.last_progress = Some(progress[SseJob])
          /\ \A i \in 1..Len(NewEvents) :
                NewEvents[i].type \in {"status", "progress", "done"} =>
                    /\ NewEvents[i].status = Some(status[SseJob])
                    /\ NewEvents[i].progress = Some(progress[SseJob])]_vars

\* C33 witness: the stream reported the job pending and, at a later poll on
\* the same session, running
C33_Witness ==
    \E i, k \in 1..Len(sse.events) :
        /\ i < k
        /\ sse.events[i].type = "status" /\ sse.events[i].status = Some("pending")
        /\ sse.events[k].type = "status" /\ sse.events[k].status = Some("running")
        /\ sse.identity # None /\ sse.identity[1].status = "running"


\* ------------------------------------------------------------------------
\* The progress stream beside a crawl that reports progress
\* (scraper_service.py 193-199 and 252-259, scrape_jobs.py 199-246)
\* ------------------------------------------------------------------------
\* _update_job_progress as the loop calls it after a listing was persisted:
\* the loop's counters, listings_scraped being n
update_job_progress(j, n) ==
    /\ worker[j].pc \in {"link_ckpt", "page_ckpt"}
    /\ worker[j].pages_visited > 0
    /\ RowExists(j)
    /\ progress[j].listings_scraped < n
    /\ progress' = [progress EXCEPT ![j] =
           update_progress(@, [pages_visited |-> worker[j].pages_visited,
                               listings_found |-> worker[j].listings_found,
                               listings_scraped |-> n,
                               errors |-> worker[j].errors])]
    /\ UNCHANGED <<site, status, max_pages, createPc, createResult, cancelPc, deletePc,
                   worker, cancelledRunning, ckptAfterCancel>>

NextStream ==
    \/ \E r \in Reqs : create_job_check_running(r) /\ UNCHANGED <<sse, fetchVars, persistVars, auxVars>> /\ NoteTerminal
    \/ \E r \in Reqs : create_job_check_site(r) /\ UNCHANGED <<sse, fetchVars, persistVars, auxVars>> /\ NoteTerminal
    \/ \E r \in Reqs : create_job_commit(r, SseJob) /\ UNCHANGED <<sse, fetchVars, persistVars, auxVars>> /\ NoteTerminal
    \/ \E j \in {SseJob} : run_scrape_job_load(j) /\ UNCHANGED <<sse, fetchVars, persistVars, auxVars>> /\ NoteTerminal
    \/ \E j \in {SseJob} : run_scrape_job_claim(j) /\ UNCHANGED <<sse, fetchVars, persistVars, auxVars>> /\ NoteTerminal
    \/ \E j \in {SseJob} : page_checkpoint(j) /\ UNCHANGED <<sse, fetchVars, persistVars, auxVars>> /\ NoteTerminal
    \/ \E j \in {SseJob} : fetch_page(j) /\ UNCHANGED <<sse, fetchVars, persistVars, auxVars>> /\ NoteTerminal
    \/ \E j \in {SseJob} : link_checkpoint(j) /\ UNCHANGED <<sse, fetchVars, persistVars, auxVars>> /\ NoteTerminal
    \/ \E j \in {SseJob} : fetch_detail(j) /\ UNCHANGED <<sse, fetchVars, persistVars, auxVars>> /\ NoteTerminal
    \/ \E j \in {SseJob}, n \in 1..MaxScraped : update_job_progress(j, n)
          /\ UNCHANGED <<sse, fetchVars, persistVars, auxVars>> /\ NoteTerminal
    \/ \E j \in {SseJob} : complete_job(j) /\ UNCHANGED <<sse, fetchVars, persistVars, auxVars>> /\ NoteTerminal
    \/ \E j \in {SseJob} : fail_job(j) /\ UNCHANGED <<sse, fetchVars, persistVars, auxVars>> /\ NoteTerminal
    \/ sse_connect /\ UNCHANGED <<jobVars, fetchVars, persistVars, auxVars>>
    \/ sse_disconnected /\ UNCHANGED <<jobVars, fetchVars, persistVars, auxVars>>
    \/ sse_poll /\ UNCHANGED <<jobVars, fetchVars, persistVars, auxVars>>

SpecStream == Init /\ [][NextStream]_vars


\* ------------------------------------------------------------------------
\* Claim on the change events of a poll (specification SpecStream)
\* ------------------------------------------------------------------------
\* the positions in NewEvents of the events of one type
NewOfType(type) == {i \in 1..Len(NewEvents) : NewEvents[i].type = type}

StatusChanged == Some(status[SseJob]) # sse.last_status

ProgressChanged == Some(progress[SseJob]) # sse.last_progress

\* C32 as stated: on each poll a status event is emitted when the status
\* differs from the last status the stream saw, and a progress event when the
\* counters differ from the last counters it saw; a poll where neither changed
\* emits neither.
C32_StatusAndProgressEvents ==
    [][PollFound =>
          /\ StatusChanged => NewOfType("status") # {}
          /\ ProgressChanged => NewOfType("progress") # {}
          /\ (~StatusChanged /\ ~ProgressChanged) =>
                 NewOfType("status") \cup NewOfType("progress") = {}]_vars

\* C32 amended: each poll emits at most one change event, carrying the status
\* and the counters just read: a status event when the status differs from
\* the last one seen, else a progress event when the counters differ from the
\* last ones seen, else none.
C32_OneChangeEventPerPoll ==
    [][PollFound =>
          LET changes == NewOfType("status") \cup NewOfType("progress")
          IN /\ Cardinality(changes) <= 1
             /\ StatusChanged => NewOfType("status") # {}
             /\ (~StatusChanged /\ ProgressChanged) => NewOfType("progress") # {}
             /\ (~StatusChanged /\ ~ProgressChanged) => changes = {}
             /\ \A i \in changes :
                   /\ NewEvents[i].status = Some(status[SseJob])
                   /\ NewEvents[i].progress = Some(progress[SseJob])]_vars

\* C32 witness: the stream sent a progress event for new counters, and later
\* one status event for a poll that found both the status and the counters
\* changed
C32_Witness ==
    \E i, k \in 1..Len(sse.events) :
        /\ i < k
        /\ sse.events[i].type = "progress"
        /\ sse.events[k].type = "status"
        /\ sse.events[k].status # sse.events[i].status
        /\ sse.events[k].progress # sse.events[i].progress
        /\ \A n \in (i + 1)..(k - 1) : sse.events[n].type = "heartbeat"


\* ------------------------------------------------------------------------
\* Claim on the start of the background runner (specification SpecControl)
\* ------------------------------------------------------------------------
\* the runner of job j makes its lookup (scraper_service.py 53-57) in this step
RunnerLooksUp(j) == worker[j].pc = "scheduled" /\ worker'[j].pc # "scheduled"

\* C34: create_job commits the pending record before it schedules
\* run_scrape_job, so the runner's lookup of the job by id finds the committed
\* record whenever it starts, unless the job was deleted in between.
C34_RunnerSeesCommittedJob ==
    /\ [](\A j \in ControlJobs : worker[j].pc = "scheduled" => status[j] # "none")
    /\ [][\A j \in ControlJobs :
             RunnerLooksUp(j) =>
                 /\ status[j] # "deleted" => (RowExists(j) /\ worker'[j].pc = "loaded")
                 /\ status[j] = "deleted" => worker'[j].pc = "done"]_vars

\* C34 witness: the runner of a job has found the record create_job committed
C34_Witness ==
    \E j \in ControlJobs :
        /\ worker[j].pc = "loaded"
        /\ status[j] = "pending"
        /\ \E r \in Reqs : createResult[r] = "created"


\* ------------------------------------------------------------------------
\* The update branch of _persist_listing on the columns of one listings row
\* (scraper_service.py 282-311, mapper_service.py 388-431, listing_model.py)
\* ------------------------------------------------------------------------
Titles == {None, Some("T2 Lisboa"), Some("T2 Porto")}

\* bedrooms, with the studio that has none
BedroomCounts == {None, Some(0), Some(3)}

\* has_pool
Flags == {None, Some(FALSE), Some(TRUE)}

\* the time the row was inserted, and datetime.now at line 310
InsertTime == "2026-01-01T00:00:00+00:00"
UpdateTime == "2026-02-01T00:00:00+00:00"

\* listing_data as schema_to_listing_dict builds it: price_currency is never
\* None (line 402), scrape_job_id is the job of the call
ListingData ==
    [title : Titles, bedrooms : BedroomCounts, has_pool : Flags,
     price_amount : ObservedPrices, price_currency : {Some("EUR"), Some("USD")},
     scrape_job_id : {Some(j) : j \in Jobs}]

\* a stored listings row: amounts as Numeric(12, 2) holds them
StoredListings ==
    [id : {1}, created_at : {InsertTime}, updated_at : {InsertTime},
     title : Titles, bedrooms : BedroomCounts, has_pool : Flags,
     price_amount : {StoreNumeric(p) : p \in ObservedPrices},
     price_currency : {Some("EUR"), Some("USD")},
     scrape_job_id : {None, Some(1)}]

\* an update loop that tests `if value`: 0 and False are skipped like None
AssignedIfTruthy(field, value) ==
    /\ field # "scrape_job_id"
    /\ value # None
    /\ field = "bedrooms" => value # Some(0)
    /\ field = "has_pool" => value # Some(FALSE)

\* line 308: field not in ("scrape_job_id",) and value is not None
Assigned(field, value) == field # "scrape_job_id" /\ value # None

\* what the column of field f holds after value was assigned and flushed
Flushes(f, value) == IF f = "price_amount" THEN StoreNumeric(value) ELSE value

\* lines 306-311: the loop over listing_data, then updated_at and scrape_job_id
update_existing(existing, listing_data, job_id) ==
    [f \in DOMAIN existing |->
        IF f \in DOMAIN listing_data /\ Assigned(f, listing_data[f])
          THEN Flushes(f, listing_data[f])
        ELSE IF f = "updated_at" THEN UpdateTime
        ELSE IF f = "scrape_job_id" THEN job_id
        ELSE existing[f]]

\* lines 287-298: the price_history row of a changed price
price_record_of(existing, listing_data) ==
    IF PriceChanged(existing, listing_data.price_amount)
      THEN Some([listing_id |-> existing.id, price_amount |-> existing.price_amount,
                 price_currency |-> IF existing.price_currency # None
                                      THEN existing.price_currency ELSE Some("EUR")])
      ELSE None

\* one call is followed: _persist_listing found existing for the source_url of
\* listing_data and commits the update
persist_listing_update(existing, listing_data) ==
    /\ rescrape' = [pc |-> "done", existing |-> existing, listing_data |-> listing_data,
                    row |-> update_existing(existing, listing_data,
                                            listing_data.scrape_job_id),
                    price_record |-> price_record_of(existing, listing_data)]

NextRescrape ==
    /\ rescrape.pc = "idle"
    /\ \E existing \in StoredListings, listing_data \in ListingData :
          persist_listing_update(existing, listing_data) /\ UNCHANGED exceptRescrapeVars

SpecRescrape == Init /\ [][NextRescrape]_vars

\* ------------------------------------------------------------------------
\* Claim on the update branch (specification SpecRescrape)
\* ------------------------------------------------------------------------
IncomingFields == {"title", "bedrooms", "has_pool", "price_amount", "price_currency"}

\* C35: in the update branch of _persist_listing every incoming field with a
\* non-null value overwrites the stored value, every incoming field that is
\* null leaves the stored value as it was, the listing keeps its id and its
\* created_at, and scrape_job_id becomes the current job.
C35_UpdateOverwritesNonNull ==
    rescrape.pc = "done" =>
        /\ \A f \in IncomingFields :
              /\ rescrape.listing_data[f] # None =>
                    rescrape.row[f] = Flushes(f, rescrape.listing_data[f])
              /\ rescrape.listing_data[f] = None => rescrape.row[f] = rescrape.existing[f]
        /\ rescrape.row.id = rescrape.existing.id
        /\ rescrape.row.created_at = rescrape.existing.created_at
        /\ rescrape.row.scrape_job_id = rescrape.listing_data.scrape_job_id

\* C35 witness: a rescrape by another job brought no title, a bedroom count of
\* 0 and has_pool false over a row that had a title, 3 bedrooms and a pool
C35_Witness ==
    /\ rescrape.pc = "done"
    /\ rescrape.listing_data.title = None /\ rescrape.row.title = Some("T2 Porto")
    /\ rescrape.existing.bedrooms = Some(3) /\ rescrape.row.bedrooms = Some(0)
    /\ rescrape.existing.has_pool = Some(TRUE) /\ rescrape.row.has_pool = Some(FALSE)
    /\ rescrape.existing.scrape_job_id = Some(1) /\ rescrape.row.scrape_job_id = Some(2)
    /\ rescrape.row.created_at = InsertTime


\* ------------------------------------------------------------------------
\* Claim on spaces in a price (specification SpecPrice)
\* ------------------------------------------------------------------------
\* the string parsed, its spaces taken out
WithoutSpaces == replace(Text(priceCase), " ", <<>>)

\* every space in the number stands before a group of three digits
SpacesGroupThousands(c) ==
    \A i \in 1..Len(c.seps) : c.seps[i] = <<" ">> => Len(c.groups[i + 1]) = 3

\* C36: parse_price takes spaces inside the numeric part as thousand
\* separators in every separator case, also when the number holds a comma or
\* a point beside them: the string parses to the amount it has without its
\* spaces.
C36_SpacesAreThousandSeparators ==
    (priceCase # NoCase /\ SpacesGroupThousands(priceCase)) =>
        priceOut.amount = parse_price(WithoutSpaces, _get_currency_map).amount


\* ------------------------------------------------------------------------
\* Cancel, then delete, before the next checkpoint
\* ------------------------------------------------------------------------
CheckpointPcs == {"page_ckpt", "link_ckpt"}

\* the first checkpoint of job j after a committed cancellation finds the row deleted
CheckpointAfterCancelAndDelete(j) ==
    /\ cancelledRunning[j]
    /\ ~ckptAfterCancel[j]
    /\ status[j] = "deleted"
    /\ worker[j].pc \in CheckpointPcs
    /\ worker'[j] # worker[j]

\* C37: when a running job was cancelled and its row was deleted before the
\* worker's next checkpoint, that checkpoint still stops the worker: it does
\* not go on to an HTTP fetch.
C37_CancelThenDeleteStopsWorker ==
    [][\A j \in Jobs :
          CheckpointAfterCancelAndDelete(j) => worker'[j].pc \notin FetchPcs]_vars


\* ------------------------------------------------------------------------
\* URLs tracked as scraped and as failed
\* ------------------------------------------------------------------------
\* the URLs the engine passed to _track_url(job, st, .) for job j
TrackedAs(j, st) == {tracked[j][i][2] : i \in {k \in 1..Len(tracked[j]) : tracked[j][k][1] = st}}

\* the URLs in the committed urls[st] list of job j
StoredAs(j, st) ==
    IF st \in DOMAIN urls[j] THEN {urls[j][st][i] : i \in 1..Len(urls[j][st])} ELSE {}

\* C38: for every job no URL is tracked both as scraped and as failed: neither
\* the _track_url calls nor the committed urls.scraped and urls.failed lists
\* have a URL in common.
C38_ScrapedAndFailedDisjoint ==
    \A j \in Jobs :
        /\ TrackedAs(j, "scraped") \cap TrackedAs(j, "failed") = {}
        /\ StoredAs(j, "scraped") \cap StoredAs(j, "failed") = {}

\* C38: some URL of some job has been tracked as scraped
C38_UrlScraped ==
    \E j \in Jobs : TrackedAs(j, "scraped") # {} \/ StoredAs(j, "scraped") # {}


\* ------------------------------------------------------------------------
\* Termination of a claimed job: one job, its runner and crawl loop, beside
\* cancel_job and delete_job.  Every fetch and every database call returns, so
\* a runner that can take its next step takes it.
\* ------------------------------------------------------------------------
\* the steps of run_scrape_job after its claim (scraper_service.py 73-85, 135-221)
RunnerStep(j) ==
    /\ \/ page_checkpoint(j)
       \/ fetch_page(j)
       \/ link_checkpoint(j)
       \/ fetch_detail(j)
       \/ complete_job(j)
       \/ fail_job(j)
    /\ UNCHANGED <<sseVars, fetchVars, persistVars, auxVars>>

NextTerminates ==
    \/ \E r \in Reqs : create_job_check_running(r)
          /\ UNCHANGED <<sseVars, fetchVars, persistVars, auxVars>>
    \/ \E r \in Reqs : create_job_check_site(r)
          /\ UNCHANGED <<sseVars, fetchVars, persistVars, auxVars>>
    \/ \E r \in Reqs : create_job_commit(r, MaxControlJobs)
          /\ UNCHANGED <<sseVars, fetchVars, persistVars, auxVars>>
    \/ \E j \in ControlJobs : cancel_job_read(j)
          /\ UNCHANGED <<sseVars, fetchVars, persistVars, auxVars>>
    \/ \E j \in ControlJobs : cancel_job_commit(j)
          /\ UNCHANGED <<sseVars, fetchVars, persistVars, auxVars>>
    \/ \E j \in ControlJobs : delete_job_read(j)
          /\ UNCHANGED <<sseVars, fetchVars, persistVars, auxVars>>
    \/ \E j \in ControlJobs : delete_job_commit(j)
          /\ UNCHANGED <<sseVars, fetchVars, persistVars, auxVars>>
    \/ \E j \in ControlJobs : run_scrape_job_load(j)
          /\ UNCHANGED <<sseVars, fetchVars, persistVars, auxVars>>
    \/ \E j \in ControlJobs : run_scrape_job_claim(j)
          /\ UNCHANGED <<sseVars, fetchVars, persistVars, auxVars>>
    \/ \E j \in ControlJobs : RunnerStep(j)

SpecTerminates ==
    /\ Init
    /\ [][NextTerminates]_vars
    /\ \A j \in ControlJobs : WF_vars(RunnerStep(j))

\* C40: every job the runner has marked running eventually has a terminal
\* status (completed, failed or cancelled), unless its row is deleted, whatever
\* max_pages is and whatever links and next pages the site returns.
C40_RunningJobTerminates ==
    \A j \in ControlJobs :
        (status[j] = "running") ~> (status[j] \in TerminalStatuses \/ status[j] = "deleted")

\* C40: the crawl of a running job went through its pages and _complete_job
\* stored completed
C40_Witness ==
    \E j \in ControlJobs :
        /\ status[j] = "completed"
        /\ worker[j].pc = "done"
        /\ cancelPc[j] = "idle"
        /\ ~cancelledRunning[j]

============================================================================
